---- MODULE Spec2Model ----
(***************************************************************************)
(* The search view of ppixiv (src/unnamed/part_001, class SearchView): the *)
(* windowed thumbnail grid.  The module models                             *)
(*   - the row packer (_addThumbToRow, _getOpenRow, _closeRow),            *)
(*   - the window selection (getMediaIdsToDisplay),                        *)
(*   - the view's handlers (refreshImages, the nearby observer, page       *)
(*     loading, setDataSource, manga expansion, mute changes).             *)
(* Sizes are CSS pixel values kept in fixed point: one unit is 1/Scale px. *)
(***************************************************************************)
EXTENDS Integers, Sequences, FiniteSets, TLC

VARIABLES
    dataSource,                 \* this.dataSource
    thumbs,                     \* this.thumbs, in key order: [id, searchPage, nearby]
    rows,                       \* this.rows: [open, children]
    sizingStyle,                \* this.sizingStyle
    expandedMediaIds,           \* this.expandedMediaIds
    mediaIdsExpandedByDefault,  \* this.mediaIdsExpandedByDefault
    mediaIdExpandedCache,       \* this._mediaIdExpandedCache
    loadPageRunner,             \* this._loadPageRunner
    setDataSourceRunner,        \* this._setDataSourceRunner
    noResultsHidden,            \* .no-results hidden
    sleepers,                   \* pending sleep(100) continuations of _loadDataSourcePageInner
    pages,                      \* per data source: the pages loaded and loading
    inFlight,                   \* dataSource.loadPage calls of the view not yet resolved
    stateExpandedMediaIds,      \* args.state.expandedMediaIds of each data source's location
    muted,                      \* the muted posts
    boxWidth,                   \* thumbnailBox width the sizing style is made for
    settingExpand,              \* the expand_manga_thumbnails setting
    did,                        \* history: what the last handler did
    sel,                        \* the getMediaIdsToDisplay call of SpecSelect
    scroll,                     \* scrollContainer.scrollTop, and the last save and restore of it
    missingMediaInfo            \* the posts ppixiv.mediaCache holds no media info for

rowVars == <<sizingStyle, rows>>
viewVars == <<dataSource, thumbs, expandedMediaIds, mediaIdsExpandedByDefault,
              mediaIdExpandedCache, loadPageRunner, setDataSourceRunner, noResultsHidden,
              sleepers, pages, inFlight, stateExpandedMediaIds, muted, boxWidth,
              settingExpand, did, missingMediaInfo>>
vars == <<rowVars, viewVars, sel, scroll>>

----------------------------------------------------------------------------
(* Bounds of the model *)

\* Resolution of a CSS length: lengths are stored as multiples of 1/Scale px.
Scale == 1000
\* Number of tiles the row-packer specification adds.
MaxTiles == 5

Max(a, b) == IF a >= b THEN a ELSE b
Min(a, b) == IF a <= b THEN a ELSE b
Abs(a) == IF a >= 0 THEN a ELSE 0 - a

\* e, named x in F: what `const x = e` is in the code.
Let(e, F(_)) == F(e)

----------------------------------------------------------------------------
(* DOM layout of a tile and of a row *)

\* A whole number of pixels as a CSS length.
Px(n) == n * Scale

\* element.offsetWidth / offsetHeight: the layout size rounded to whole pixels.
Offset(v) == (v + (Scale \div 2)) \div Scale

\* value * num / den as a CSS length, the value and the quotient's parts in whole px.
ScaleBy(value, num, den) == (value * num * Scale) \div den

\* createThumb / _setThumbnailSize: a tile of the preferred size thumbWidth x thumbHeight.
Node(id, thumbWidth, thumbHeight) ==
    [id |-> id, w |-> Px(thumbWidth), h |-> Px(thumbHeight),
     thumbWidth |-> thumbWidth, thumbHeight |-> thumbHeight]

RECURSIVE SumOffsetWidth(_)
SumOffsetWidth(children) ==
    IF children = <<>> THEN 0
    ELSE Offset(Head(children).w) + SumOffsetWidth(Tail(children))

RECURSIVE MaxOffsetHeight(_)
MaxOffsetHeight(children) ==
    IF children = <<>> THEN 0
    ELSE Max(Offset(Head(children).h), MaxOffsetHeight(Tail(children)))

RECURSIVE SumStyleWidth(_)
SumStyleWidth(children) ==
    IF children = <<>> THEN 0
    ELSE Head(children).w + SumStyleWidth(Tail(children))

\* row.scrollWidth: the width the row's children and the flex gaps between them need.
RowScrollWidth(children, style) ==
    IF children = <<>> THEN 0
    ELSE SumOffsetWidth(children) + style.padding * (Len(children) - 1)

\* row.offsetWidth: a row is as wide as the container.
RowOffsetWidth(style) == style.containerWidth

----------------------------------------------------------------------------
(* _closeRow *)

\* First pass, one tile: expand it towards the tallest tile, by at most the unused width.
ExpandThumb(children, i, style) ==
    LET thumbToExpand == children[i]
        maxHeight == MaxOffsetHeight(children)
        availWidth == RowOffsetWidth(style) - style.padding * (Len(children) - 1)
                        - SumOffsetWidth(children)
        offW == Offset(thumbToExpand.w)
        offH == Offset(thumbToExpand.h)
        maxWidth == offW + availWidth
    IN  IF maxHeight * offW <= maxWidth * offH     \* maxHeight/offH <= maxWidth/offW
        THEN [thumbToExpand EXCEPT !.h = ScaleBy(offH, maxHeight, offH),
                                   !.w = ScaleBy(offW, maxHeight, offH)]
        ELSE [thumbToExpand EXCEPT !.h = ScaleBy(offH, maxWidth, offW),
                                   !.w = ScaleBy(offW, maxWidth, offW)]

\* First pass: the tiles in order, each seeing the sizes the earlier ones were given.
RECURSIVE ExpandPass(_, _, _)
ExpandPass(children, i, style) ==
    IF i > Len(children) THEN children
    ELSE ExpandPass([children EXCEPT ![i] = ExpandThumb(children, i, style)], i + 1, style)

\* A second pass that leaves the tiles as the first pass made them.
FillVerticallyLeftOut(children) == children

\* Second pass: scale every tile to the height of the tallest one.
FillVertically(children) ==
    LET maxHeight == MaxOffsetHeight(children)
    IN  [i \in 1..Len(children) |->
            LET height == Offset(children[i].h)
                width == Offset(children[i].w)
            IN  [children[i] EXCEPT !.h = ScaleBy(height, maxHeight, height),
                                    !.w = ScaleBy(width, maxHeight, height)]]

\* The factor's denominator the final pass uses: the gaps plus the tiles' widths.
FillWidth(children, style) ==
    style.padding * (Len(children) - 1) + SumOffsetWidth(children)

\* Final pass: scale the whole row by row.offsetWidth / width.
FillHorizontally(children, style) ==
    LET width == FillWidth(children, style)
    IN  [i \in 1..Len(children) |->
            [children[i] EXCEPT !.h = ScaleBy(Offset(children[i].h), RowOffsetWidth(style), width),
                                !.w = ScaleBy(Offset(children[i].w), RowOffsetWidth(style), width)]]

\* _closeRow(row): nothing for a closed row; an empty row is only marked closed
\* (its loops run over no tile).
CloseRow(row, style) ==
    IF ~row.open THEN row
    ELSE IF row.children = <<>> THEN [row EXCEPT !.open = FALSE]
    ELSE [open |-> FALSE,
          children |-> FillHorizontally(
                            FillVertically(ExpandPass(row.children, 1, style)), style)]

----------------------------------------------------------------------------
(* _getOpenRow and _addThumbToRow *)

NewRow == [open |-> TRUE, children |-> <<>>]

\* A _getOpenRow that answers with the edge row, open or closed.
GetOpenRowWhateverItsState(rs, atEnd) ==
    IF rs # <<>> THEN rs
    ELSE IF atEnd THEN Append(rs, NewRow) ELSE <<NewRow>> \o rs

\* _getOpenRow: the rows, with a new open row at that edge unless the edge row is open.
GetOpenRow(rs, atEnd) ==
    IF rs # <<>> /\ (IF atEnd THEN rs[Len(rs)].open ELSE rs[1].open)
    THEN rs
    ELSE IF atEnd THEN Append(rs, NewRow) ELSE <<NewRow>> \o rs

EdgeIdx(rs, atEnd) == IF atEnd THEN Len(rs) ELSE 1

\* An insertion that puts the node last in the row, whatever the edge.
InsertNodeBeforeEnd(children, node, atEnd) == Append(children, node)

\* insertAdjacentElement(atEnd ? "beforeend" : "afterbegin", node)
InsertNode(children, node, atEnd) ==
    IF atEnd THEN Append(children, node) ELSE <<node>> \o children

\* _addThumbToRow(node, {atEnd}): the rows after the node was added.
AddThumbToRow(rs, node, atEnd, style) ==
    LET rs1 == GetOpenRow(rs, atEnd)
        k == EdgeIdx(rs1, atEnd)
        added == InsertNode(rs1[k].children, node, atEnd)
    IN  IF RowScrollWidth(added, style) <= RowOffsetWidth(style)
        THEN [rs1 EXCEPT ![k].children = added]
        ELSE \* node.remove(); _closeRow(addToRow); a new row takes the node
             LET rs2 == [rs1 EXCEPT ![k] = CloseRow(rs1[k], style)]
                 rs3 == GetOpenRow(rs2, atEnd)
                 k3 == EdgeIdx(rs3, atEnd)
             IN  [rs3 EXCEPT ![k3].children = InsertNode(rs3[k3].children, node, atEnd)]

----------------------------------------------------------------------------
(* Media ids *)

\* A media id is <<illust, page>>; page 0 is the post itself (its first page).
Null == <<>>
MediaId(illust, page) == <<illust, page>>
\* helpers.mediaId.getMediaIdFirstPage
GetMediaIdFirstPage(mediaId) == IF mediaId = Null THEN Null ELSE <<mediaId[1], 0>>

\* Array.indexOf: the 0-based index of the first occurrence, or -1.
IndexOf(seq, x) ==
    IF \E i \in 1..Len(seq) : seq[i] = x
    THEN (CHOOSE i \in 1..Len(seq) : seq[i] = x /\ \A j \in 1..(i - 1) : seq[j] # x) - 1
    ELSE 0 - 1

\* Array.slice(startIdx, endIdx + 1) with 0-based inclusive indexes.
Slice(seq, startIdx, endIdx) ==
    LET lo == Max(startIdx, 0)
        hi == Min(endIdx, Len(seq) - 1)
    IN  IF hi < lo THEN <<>> ELSE [i \in 1..(hi - lo + 1) |-> seq[lo + i]]

\* Object.keys(this.thumbs)
ThumbIds(ths) == [i \in 1..Len(ths) |-> ths[i].id]

\* this.thumbs[mediaId] != null
HasThumb(ths, mediaId) == \E i \in 1..Len(ths) : ths[i].id = mediaId

----------------------------------------------------------------------------
(* getMediaIdsToDisplay *)

chunkSizeForwards == 25
\* ppixiv.ios ? 100 : 25
chunkSizeBackwards(ios) == IF ios THEN 100 ELSE 25

\* getLoadedMediaIds: the first and last materialized id (undefined when there is none).
GetLoadedMediaIds(ths) ==
    IF ths = <<>> THEN <<Null, Null>> ELSE <<ths[1].id, ths[Len(ths)].id>>

\* getNearbyMediaIds: the first and last id flagged nearby.
GetNearbyMediaIds(ths) ==
    LET near == {i \in 1..Len(ths) : ths[i].nearby}
    IN  IF near = {} THEN <<Null, Null>>
        ELSE <<ths[CHOOSE i \in near : \A j \in near : i <= j].id,
               ths[CHOOSE i \in near : \A j \in near : i >= j].id>>

\* A seed that is never extended by a chunk.
SeedRangeNoChunks(allMediaIds, targetMediaId, ths, ios) ==
    LET targetMediaIdIdx == IndexOf(allMediaIds, targetMediaId)
        firstLoadedMediaIdIdx == IndexOf(allMediaIds, GetLoadedMediaIds(ths)[1])
        lastLoadedMediaIdIdx == IndexOf(allMediaIds, GetLoadedMediaIds(ths)[2])
    IN  IF targetMediaId # Null /\ ~HasThumb(ths, targetMediaId) /\ targetMediaIdIdx # 0 - 1
        THEN [startIdx |-> targetMediaIdIdx, endIdx |-> targetMediaIdIdx]
        ELSE IF firstLoadedMediaIdIdx # 0 - 1 /\ lastLoadedMediaIdIdx # 0 - 1
        THEN [startIdx |-> firstLoadedMediaIdIdx, endIdx |-> lastLoadedMediaIdIdx]
        ELSE [startIdx |-> 0, endIdx |-> 0]

\* The range before clamping: around the target, or the materialized span extended
\* by a chunk at each edge whose thumb is the nearby one.
SeedRange(allMediaIds, targetMediaId, ths, ios) ==
    LET targetMediaIdIdx == IndexOf(allMediaIds, targetMediaId)
    IN  IF targetMediaId # Null /\ ~HasThumb(ths, targetMediaId) /\ targetMediaIdIdx # 0 - 1
        THEN [startIdx |-> targetMediaIdIdx, endIdx |-> targetMediaIdIdx]
        ELSE
            LET loaded == GetLoadedMediaIds(ths)
                firstLoadedMediaIdIdx == IndexOf(allMediaIds, loaded[1])
                lastLoadedMediaIdIdx == IndexOf(allMediaIds, loaded[2])
                bothFound == firstLoadedMediaIdIdx # 0 - 1 /\ lastLoadedMediaIdIdx # 0 - 1
                startIdx0 == IF bothFound THEN firstLoadedMediaIdIdx ELSE 0
                endIdx0 == IF bothFound THEN lastLoadedMediaIdIdx ELSE 0
                nearbyIds == GetNearbyMediaIds(ths)
                lastNearbyMediaIdIdx == IndexOf(allMediaIds, nearbyIds[2])
                firstNearbyMediaIdIdx == IndexOf(allMediaIds, nearbyIds[1])
            IN  [startIdx |->
                    IF firstNearbyMediaIdIdx # 0 - 1 /\ firstNearbyMediaIdIdx = firstLoadedMediaIdIdx
                    THEN startIdx0 - chunkSizeBackwards(ios) ELSE startIdx0,
                 endIdx |->
                    IF lastNearbyMediaIdIdx # 0 - 1 /\ lastNearbyMediaIdIdx = lastLoadedMediaIdIdx
                    THEN endIdx0 + chunkSizeForwards ELSE endIdx0]

\* A clamp that forgets the end of the list.
ClampRangeNoUpperBound(range, length) ==
    LET startIdx == Max(range.startIdx, 0)
    IN  [startIdx |-> startIdx, endIdx |-> Max(startIdx, range.endIdx)]

\* Clamp the range.
ClampRange(range, length) ==
    LET startIdx == Max(range.startIdx, 0)
        endIdx == Min(range.endIdx, length - 1)
    IN  [startIdx |-> startIdx, endIdx |-> Max(startIdx, endIdx)]

\* An expansion that stops at nothing but the ends of the list.
GrowRangeWholeList(range, length, desiredPixels, viewPixels) ==
    [startIdx |-> 0, endIdx |-> length - 1]

\* An iteration that extends the range towards the beginning of the list only.
GrowStepBackwardOnly(range, length) ==
    [startIdx |-> IF range.startIdx > 0 THEN range.startIdx - 1 ELSE range.startIdx,
     endIdx |-> range.endIdx]

\* The end of an iteration of the loop: one id more at each end that has one.
GrowStep(range, length) ==
    [startIdx |-> IF range.startIdx > 0 THEN range.startIdx - 1 ELSE range.startIdx,
     endIdx |-> IF range.endIdx + 1 < length THEN range.endIdx + 1 ELSE range.endIdx]

\* Expand the list outwards until it takes the area of two screens.
RECURSIVE GrowRange(_, _, _, _)
GrowRange(range, length, desiredPixels, viewPixels) ==
    LET totalThumbs == (range.endIdx - range.startIdx) + 1
    IN  IF totalThumbs >= length THEN range
        ELSE IF totalThumbs * desiredPixels >= viewPixels THEN range
        ELSE GrowRange(GrowStep(range, length), length, desiredPixels, viewPixels)

\* getMediaIdsToDisplay({allMediaIds, targetMediaId}) for the given thumbs, sizing style
\* and scrollContainer.offsetHeight.
GetMediaIdsToDisplay(allMediaIds, targetMediaId, ths, style, offsetHeight, ios) ==
    IF Len(allMediaIds) = 0 THEN [startIdx |-> 0, endIdx |-> 0]
    ELSE GrowRange(ClampRange(SeedRange(allMediaIds, targetMediaId, ths, ios), Len(allMediaIds)),
                   Len(allMediaIds), style.desiredPixels,
                   style.containerWidth * offsetHeight * 2)

----------------------------------------------------------------------------
(* The data sources the view is shown: their pages, and what may be loaded *)

\* Posts per page of data source "A".
IdsPerPage == 2
\* Number of pages of data source "A".
LastPageA == 5
\* Number of posts of data source "L", which has one long page.
LongLen == 60

DataSources == {"A", "B", "L"}
\* this.dataSource before the first setDataSource
NoDataSource == "null"

\* dataSource.initialPage: "A" is opened on its second page.
InitialPage(ds) == IF ds = "A" THEN 2 ELSE 1

LastPage(ds) == IF ds = "A" THEN LastPageA ELSE IF ds = "B" THEN 2 ELSE 1

\* dataSource.canLoadPage
CanLoadPage(ds, page) == 1 <= page /\ page <= LastPage(ds)

\* idList.mediaIdsByPage.get(page): the posts of a page.  "B" is a data source with
\* a bug: the last post of its first page comes again on its second page.
MediaIdsByPage(ds, page) ==
    IF ds = "A" THEN [i \in 1..IdsPerPage |-> MediaId((page - 1) * IdsPerPage + i, 0)]
    ELSE IF ds = "B" THEN [i \in 1..2 |-> MediaId(1000 + page + i - 1, 0)]
    ELSE [i \in 1..LongLen |-> MediaId(2000 + i, 0)]

\* dataSource.allowExpandingMangaPages
AllowExpandingMangaPages(ds) == ds = "A"

\* The manga post: the first post of the third page of "A".
MangaPost == MediaId(2 * IdsPerPage + 1, 0)

\* mediaInfo.pageCount
PageCount(mediaId) == IF GetMediaIdFirstPage(mediaId) = MangaPost THEN 3 ELSE 1

\* ppixiv.mediaCache.getMediaInfoSync(mediaId) != null
HasMediaInfo(v, mediaId) == GetMediaIdFirstPage(mediaId) \notin v.missingMediaInfo

\* idList.getLowestLoadedPage / getHighestLoadedPage
LowestLoadedPage(loaded) == CHOOSE p \in loaded : \A q \in loaded : p <= q
HighestLoadedPage(loaded) == CHOOSE p \in loaded : \A q \in loaded : p >= q

\* dataSource.isPageLoadedOrLoading
IsPageLoadedOrLoading(pg, ds, page) == page \in pg[ds].loaded \/ page \in pg[ds].loading

\* dataSource.hasNoResults: no ids and nothing loading.
HasNoResults(pg, ds) ==
    /\ pg[ds].loading = {}
    /\ \A p \in pg[ds].loaded : MediaIdsByPage(ds, p) = <<>>

----------------------------------------------------------------------------
(* Manga expansion: isMediaIdExpanded, _isMediaIdExpanded, _getExpandedPages *)

\* _isMediaIdExpanded(mediaId) in the view state v.
IsMediaIdExpandedUncached(v, mediaId0) ==
    LET mediaId == GetMediaIdFirstPage(mediaId0)
    IN  IF v.dataSource = NoDataSource \/ ~AllowExpandingMangaPages(v.dataSource) THEN FALSE
        ELSE IF mediaId \in DOMAIN v.expandedMediaIds THEN v.expandedMediaIds[mediaId]
        ELSE IF ~v.mediaIdsExpandedByDefault THEN FALSE
        ELSE IF HasMediaInfo(v, mediaId) /\ mediaId \in v.muted THEN FALSE
        ELSE IF ~HasMediaInfo(v, mediaId) \/ PageCount(mediaId) = 1 THEN FALSE
        ELSE TRUE

\* isMediaIdExpanded(mediaId): the cached value, or the computed one when none is cached.
IsMediaIdExpanded(v, mediaId) ==
    IF mediaId \in DOMAIN v.cache THEN v.cache[mediaId]
    ELSE IsMediaIdExpandedUncached(v, mediaId)

\* this._mediaIdExpandedCache after isMediaIdExpanded was called for each of the ids.
CacheAfter(v, ids) ==
    [id \in DOMAIN v.cache \cup ids |-> IsMediaIdExpanded(v, id)]

\* An expansion that leaves out the post's first page.
GetExpandedPagesWithoutFirst(v, mediaId) ==
    IF ~IsMediaIdExpanded(v, mediaId) THEN <<>>
    ELSE IF ~HasMediaInfo(v, mediaId) \/ PageCount(mediaId) <= 1 THEN <<>>
    ELSE [mangaPage \in 1..(PageCount(mediaId) - 1) |-> MediaId(mediaId[1], mangaPage)]

\* _getExpandedPages(mediaId): the pages of an expanded multi-page post, or <<>> for null.
GetExpandedPages(v, mediaId) ==
    IF ~IsMediaIdExpanded(v, mediaId) THEN <<>>
    ELSE IF ~HasMediaInfo(v, mediaId) \/ PageCount(mediaId) <= 1 THEN <<>>
    ELSE [mangaPage \in 1..PageCount(mediaId) |-> MediaId(mediaId[1], mangaPage - 1)]

----------------------------------------------------------------------------
(* getDataSourceMediaIds *)

\* The entries [id, page] of one post: its expanded pages, or the post itself.
PostEntries(v, mediaId, page) ==
    LET expanded == GetExpandedPages(v, mediaId)
    IN  IF expanded # <<>> THEN [i \in 1..Len(expanded) |-> [id |-> expanded[i], page |-> page]]
        ELSE <<[id |-> mediaId, page |-> page]>>

\* The entries of the posts i..j of a page, in order.
RECURSIVE PageEntries(_, _, _, _, _)
PageEntries(v, mediaIdsOnPage, i, j, page) ==
    IF i > j THEN <<>>
    ELSE IF i = j THEN PostEntries(v, mediaIdsOnPage[i], page)
    ELSE PageEntries(v, mediaIdsOnPage, i, (i + j) \div 2, page)
            \o PageEntries(v, mediaIdsOnPage, (i + j) \div 2 + 1, j, page)

RECURSIVE EntriesFrom(_, _, _)
EntriesFrom(v, page, maxPage) ==
    IF page > maxPage THEN <<>>
    ELSE PageEntries(v, MediaIdsByPage(v.dataSource, page), 1,
                     Len(MediaIdsByPage(v.dataSource, page)), page)
            \o EntriesFrom(v, page + 1, maxPage)

\* The posts of the loaded pages, which isMediaIdExpanded is asked about.
LoadedPosts(v) ==
    UNION {{MediaIdsByPage(v.dataSource, p)[i] : i \in 1..Len(MediaIdsByPage(v.dataSource, p))} :
                p \in v.pages[v.dataSource].loaded}

HasDuplicates(seq) == \E i, j \in 1..Len(seq) : i < j /\ seq[i] = seq[j]

\* getDataSourceMediaIds(): entries is allMediaIds with mediaIdPages, in order;
\* duplicate is whether it throws Error("Duplicate media IDs").
GetDataSourceMediaIds(v) ==
    IF v.dataSource = NoDataSource \/ v.pages[v.dataSource].loaded = {}
    THEN [entries |-> <<>>, duplicate |-> FALSE, cache |-> v.cache]
    ELSE LET loaded == v.pages[v.dataSource].loaded
             entries == EntriesFrom(v, LowestLoadedPage(loaded), HighestLoadedPage(loaded))
         IN  [entries |-> entries,
              duplicate |-> HasDuplicates([i \in 1..Len(entries) |-> entries[i].id]),
              cache |-> CacheAfter(v, LoadedPosts(v))]

EntryIds(entries) == [i \in 1..Len(entries) |-> entries[i].id]

\* mediaIdPages[mediaId]
SearchPageOf(entries, mediaId) ==
    entries[CHOOSE i \in 1..Len(entries) : entries[i].id = mediaId].page

----------------------------------------------------------------------------
(* makeThumbnailSizingStyle *)

\* thumbnailSizeForValue of the thumbnail-size setting, in px.
DesiredSize == 300
\* scrollContainer.offsetHeight, in px.
ViewportHeight == 200
\* maxColumns of a search that is neither mobile, manga nor local
MaxColumns == 5
\* padding: ppixiv.mobile ? 3 : 15
Padding == 15

\* The error of a column count: |thumbWidth * thumbHeight - desiredPixels|, ratio 1.
ColumnsError(containerWidth, columns) ==
    LET thumbWidth == (containerWidth - Padding * (columns - 1)) \div columns
    IN  Abs(thumbWidth * thumbWidth - DesiredSize * DesiredSize)

\* makeThumbnailSizingStyle() for a container width px wide: the column count with
\* the least error (the greater count on a tie), the thumb clamped to the desired
\* size, the container clamped to the columns.
MakeThumbnailSizingStyle(width) ==
    LET columns == CHOOSE c \in 1..MaxColumns : \A d \in 1..MaxColumns :
                        \/ ColumnsError(width, c) < ColumnsError(width, d)
                        \/ ColumnsError(width, c) = ColumnsError(width, d) /\ c >= d
        fitWidth == (width - Padding * (columns - 1)) \div columns
        thumbWidth == IF fitWidth * fitWidth > DesiredSize * DesiredSize
                      THEN DesiredSize ELSE fitWidth
    IN  [thumbnailStyle |-> "square", columns |-> columns, padding |-> Padding,
         thumbWidth |-> thumbWidth, thumbHeight |-> thumbWidth,
         containerWidth |-> columns * thumbWidth + (columns - 1) * Padding,
         desiredPixels |-> DesiredSize * DesiredSize]

\* _thumbnailSize(mediaId): the base size, the thumbnail style being "square".
ThumbnailSize(style, mediaId) == [thumbWidth |-> style.thumbWidth, thumbHeight |-> style.thumbHeight]

----------------------------------------------------------------------------
(* refreshImages *)

\* this.sizingStyle before the first refreshImages
NoSizingStyle == [thumbnailStyle |-> "none", columns |-> 0, padding |-> 0, thumbWidth |-> 0,
                  thumbHeight |-> 0, containerWidth |-> 0, desiredPixels |-> 0]

\* What the last handler's last refreshImages call did (for the properties; not
\* state of the program): the ids materialized on entry, at the overlap test and
\* wanted, the thumbs and rows it created and destroyed.
NoRefresh == [called |-> FALSE, threw |-> FALSE, purge |-> FALSE, target |-> Null,
              targetIdx |-> 0 - 1, startIdx |-> 0, endIdx |-> 0,
              before |-> <<>>, current |-> <<>>, desired |-> <<>>, allLen |-> 0,
              created |-> 0, destroyed |-> 0, rowsKept |-> TRUE,
              thumbsKept |-> TRUE, closedRowsKept |-> TRUE,
              styleChanged |-> FALSE, purgeArg |-> FALSE, targetArg |-> Null,
              savedScroll |-> Null]

\* createThumb(mediaId, searchPage): the element, not yet nearby.
CreateThumb(mediaId, searchPage) == [id |-> mediaId, searchPage |-> searchPage, nearby |-> FALSE]

\* The tile createThumb / setupThumb sizes for the row.
CreateNode(style, mediaId) ==
    Node(mediaId, ThumbnailSize(style, mediaId).thumbWidth, ThumbnailSize(style, mediaId).thumbHeight)

\* One pass of either loop: the thumb is created, entered in thumbs and put in a row.
AddThumb(tr, entries, mediaId, atEnd, style) ==
    [thumbs |-> IF atEnd THEN Append(tr.thumbs, CreateThumb(mediaId, SearchPageOf(entries, mediaId)))
                ELSE <<CreateThumb(mediaId, SearchPageOf(entries, mediaId))>> \o tr.thumbs,
     rows |-> AddThumbToRow(tr.rows, CreateNode(style, mediaId), atEnd, style)]

\* TRUE, once x is computed: the loops below go on from thumbs and rows that are made,
\* not from the making of them.
Computed(x) == x = x

\* "Add thumbs to the end": mediaIds[idx] for idx from firstIdx up to lastIdx (0-based),
\* the first half of the passes and then the second.
RECURSIVE AddThumbsToEnd(_, _, _, _, _, _)
AddThumbsToEnd(tr, entries, mediaIds, firstIdx, lastIdx, style) ==
    IF lastIdx < firstIdx THEN tr
    ELSE IF Computed(tr) /\ lastIdx = firstIdx
    THEN AddThumb(tr, entries, mediaIds[firstIdx + 1], TRUE, style)
    ELSE LET mid == (firstIdx + lastIdx) \div 2
         IN  AddThumbsToEnd(AddThumbsToEnd(tr, entries, mediaIds, firstIdx, mid, style),
                            entries, mediaIds, mid + 1, lastIdx, style)

\* "Add thumbs to the beginning": mediaIds[idx] for idx from firstIdx down to lastIdx.
RECURSIVE AddThumbsToBeginning(_, _, _, _, _, _)
AddThumbsToBeginning(tr, entries, mediaIds, firstIdx, lastIdx, style) ==
    IF firstIdx < lastIdx THEN tr
    ELSE IF Computed(tr) /\ firstIdx = lastIdx
    THEN AddThumb(tr, entries, mediaIds[firstIdx + 1], FALSE, style)
    ELSE LET mid == (firstIdx + lastIdx) \div 2
         IN  AddThumbsToBeginning(
                AddThumbsToBeginning(tr, entries, mediaIds, firstIdx, mid + 1, style),
                entries, mediaIds, mid, lastIdx, style)

\* A refresh that never finds its thumbs among the wanted ids.
IncrementalUpdateNever(mediaIds, currentMediaIds) == FALSE

\* Whether the materialized ids are found unchanged inside the wanted ids.
IncrementalUpdate(mediaIds, currentMediaIds) ==
    LET firstExistingIdx == IndexOf(mediaIds, IF currentMediaIds = <<>> THEN Null
                                              ELSE currentMediaIds[1])
        lastExistingIdx == IndexOf(mediaIds, IF currentMediaIds = <<>> THEN Null
                                             ELSE currentMediaIds[Len(currentMediaIds)])
    IN  /\ firstExistingIdx # 0 - 1
        /\ lastExistingIdx # 0 - 1
        /\ Slice(mediaIds, firstExistingIdx, lastExistingIdx) = currentMediaIds

\* setupThumb(element) throws Error("Missing media info data"): the media cache holds
\* no info for the id.
SetupThumbThrows(v, mediaId) == ~HasMediaInfo(v, mediaId)

\* The indexes from..to (0-based) of the ids createThumb throws for.
ThrowingIdxs(v, mediaIds, from, to) ==
    {idx \in from..to : SetupThumbThrows(v, mediaIds[idx + 1])}

MinOf(S) == CHOOSE x \in S : \A y \in S : x <= y
MaxOf(S) == CHOOSE x \in S : \A y \in S : x >= y

\* The second half of refreshImages: the thumbs and rows for the wanted ids.  A loop
\* ends at the first id createThumb throws for, and with it the pass.
Reconcile(v, ths, rs, entries, mediaIds, targetMediaId, style) ==
    Let(ThumbIds(ths), LAMBDA currentMediaIds :
    Let(IncrementalUpdate(mediaIds, currentMediaIds), LAMBDA incrementalUpdate :
    Let(IndexOf(mediaIds, targetMediaId), LAMBDA restoreIdx :
    Let(IF incrementalUpdate THEN [thumbs |-> ths, rows |-> rs]
        ELSE [thumbs |-> <<>>, rows |-> <<>>],                 \* _clearThumbs
        LAMBDA kept :
    LET firstExistingIdx == IF incrementalUpdate THEN IndexOf(mediaIds, currentMediaIds[1])
                            ELSE IF restoreIdx # 0 - 1 THEN restoreIdx ELSE 0
        lastExistingIdx == IF incrementalUpdate
                           THEN IndexOf(mediaIds, currentMediaIds[Len(currentMediaIds)])
                           ELSE IF restoreIdx # 0 - 1 THEN restoreIdx - 1 ELSE 0 - 1
        throwsAtEnd == ThrowingIdxs(v, mediaIds, lastExistingIdx + 1, Len(mediaIds) - 1)
        throwsAtBeginning == ThrowingIdxs(v, mediaIds, 0, firstExistingIdx - 1)
    IN
    Let(AddThumbsToBeginning(
            AddThumbsToEnd(kept, entries, mediaIds, lastExistingIdx + 1,
                           IF throwsAtEnd = {} THEN Len(mediaIds) - 1
                           ELSE MinOf(throwsAtEnd) - 1, style),
            entries, mediaIds, firstExistingIdx - 1,
            IF throwsAtEnd # {} THEN firstExistingIdx
            ELSE IF throwsAtBeginning = {} THEN 0 ELSE MaxOf(throwsAtBeginning) + 1, style),
        LAMBDA result :
    [thumbs |-> result.thumbs, rows |-> result.rows,
     threw |-> throwsAtEnd # {} \/ throwsAtBeginning # {},
     created |-> Len(result.thumbs) - Len(kept.thumbs),
     destroyed |-> IF incrementalUpdate THEN 0 ELSE Len(ths),
     thumbsKept |-> \E at \in 0..(Len(result.thumbs) - Len(ths)) :
                        \A i \in 1..Len(ths) : result.thumbs[at + i] = ths[i],
     closedRowsKept |-> \A k \in 1..Len(rs) :
                            ~rs[k].open => \E j \in 1..Len(result.rows) : result.rows[j] = rs[k]
    ])))))

\* A refresh that starts over only when it is asked to.
PurgesOnlyWhenAsked(oldSizingStyle, style, purgeArg) == purgeArg

\* refreshImages: whether the thumbs are cleared, by purge or by a sizing style that
\* differs from the old one, when there is an old one.
Purges(oldSizingStyle, style, purgeArg) ==
    purgeArg \/ (oldSizingStyle # NoSizingStyle /\ oldSizingStyle # style)

\* refreshImages({targetMediaId, purge}) in the view state v; savedScrollId is the id
\* saveScrollPosition finds at the scroll position of the moment (Null for none).
RefreshImages(v, targetArg, purgeArg, savedScrollId) ==
    IF v.dataSource = NoDataSource THEN v
    ELSE
    Let(MakeThumbnailSizingStyle(v.boxWidth), LAMBDA style :
    Let(GetDataSourceMediaIds(v), LAMBDA ids :
    Let(EntryIds(ids.entries), LAMBDA allMediaIds :
    LET oldSizingStyle == v.sizingStyle
        purge == Purges(oldSizingStyle, style, purgeArg)
        target1 == IF purge /\ targetArg = Null THEN savedScrollId ELSE targetArg
        ths == IF purge THEN <<>> ELSE v.thumbs            \* _clearThumbs
        rs == IF purge THEN <<>> ELSE v.rows
        targetMediaId == IF target1 # Null /\ IndexOf(allMediaIds, target1) = 0 - 1
                         THEN GetMediaIdFirstPage(target1) ELSE target1
    IN
    Let(GetMediaIdsToDisplay(allMediaIds, targetMediaId, ths, style, ViewportHeight, FALSE),
        LAMBDA range :
    Let(Slice(allMediaIds, range.startIdx, range.endIdx), LAMBDA mediaIds :
    Let(Reconcile(v, ths, rs, ids.entries, mediaIds, targetMediaId, style), LAMBDA rec :
    Let([called |-> TRUE, threw |-> ids.duplicate \/ rec.threw, purge |-> purge,
         target |-> targetMediaId,
         targetIdx |-> IF ids.duplicate THEN 0 - 1 ELSE IndexOf(allMediaIds, targetMediaId),
         startIdx |-> IF ids.duplicate THEN 0 ELSE range.startIdx,
         endIdx |-> IF ids.duplicate THEN 0 ELSE range.endIdx,
         before |-> ThumbIds(v.thumbs), current |-> ThumbIds(ths),
         desired |-> IF ids.duplicate THEN <<>> ELSE mediaIds,
         allLen |-> Len(allMediaIds),
         created |-> IF ids.duplicate THEN 0 ELSE rec.created,
         destroyed |-> (IF purge THEN Len(v.thumbs) ELSE 0)
                         + (IF ids.duplicate THEN 0 ELSE rec.destroyed),
         rowsKept |-> IF ids.duplicate THEN rs = v.rows ELSE rec.rows = v.rows,
         thumbsKept |-> IF ids.duplicate THEN ths = v.thumbs ELSE ~purge /\ rec.thumbsKept,
         closedRowsKept |-> IF ids.duplicate THEN rs = v.rows
                            ELSE ~purge /\ rec.closedRowsKept,
         styleChanged |-> oldSizingStyle # NoSizingStyle /\ oldSizingStyle # style,
         purgeArg |-> purgeArg, targetArg |-> targetArg,
         savedScroll |-> IF purge THEN savedScrollId ELSE Null],
        LAMBDA report :
    IF ids.duplicate
    THEN \* throw Error("Duplicate media IDs")
         [v EXCEPT !.sizingStyle = style, !.thumbs = ths, !.rows = rs, !.cache = ids.cache,
                   !.threw = TRUE, !.refresh = report]
    ELSE Let([v EXCEPT !.sizingStyle = style, !.thumbs = rec.thumbs, !.rows = rec.rows,
                       !.cache = ids.cache, !.refresh = report,
                       !.threw = rec.threw],   \* throw Error("Missing media info data")
             LAMBDA v2 :
             \* createThumb's setupThumb asks isMediaIdExpanded about each new thumb
             IF AllowExpandingMangaPages(v.dataSource)
             THEN [v2 EXCEPT !.cache = CacheAfter(v2, {rec.thumbs[i].id : i \in 1..Len(rec.thumbs)}
                                                      \ {ths[i].id : i \in 1..Len(ths)})]
             ELSE v2))))))))

----------------------------------------------------------------------------
(* The view: its state as one record, and its handlers as functions of it *)

EmptyMap == [x \in {} |-> TRUE]
NoPage == 0 - 1
IdleRunner == [isRunning |-> FALSE, dataSource |-> NoDataSource, targetMediaId |-> Null]

\* The view and what surrounds it, as the record the handlers work on.
View ==
    [dataSource |-> dataSource, thumbs |-> thumbs, rows |-> rows, sizingStyle |-> sizingStyle,
     expandedMediaIds |-> expandedMediaIds,
     mediaIdsExpandedByDefault |-> mediaIdsExpandedByDefault,
     cache |-> mediaIdExpandedCache, loadPageRunner |-> loadPageRunner,
     setDataSourceRunner |-> setDataSourceRunner, noResultsHidden |-> noResultsHidden,
     sleepers |-> sleepers, pages |-> pages, inFlight |-> inFlight,
     stateExpandedMediaIds |-> stateExpandedMediaIds, muted |-> muted, boxWidth |-> boxWidth,
     settingExpand |-> settingExpand, missingMediaInfo |-> missingMediaInfo,
     scrollMediaId |-> scroll.history.scrollPosition.mediaId,
     op |-> did.op, threw |-> did.threw, refresh |-> did.refresh, count |-> did.count,
     wasRunning |-> did.wasRunning]

\* The view a handler leaves.
CommitView(w) ==
    \E v \in {w} :
    /\ dataSource' = v.dataSource
    /\ thumbs' = v.thumbs
    /\ rows' = v.rows
    /\ sizingStyle' = v.sizingStyle
    /\ expandedMediaIds' = v.expandedMediaIds
    /\ mediaIdsExpandedByDefault' = v.mediaIdsExpandedByDefault
    /\ mediaIdExpandedCache' = v.cache
    /\ loadPageRunner' = v.loadPageRunner
    /\ setDataSourceRunner' = v.setDataSourceRunner
    /\ noResultsHidden' = v.noResultsHidden
    /\ sleepers' = v.sleepers
    /\ pages' = v.pages
    /\ inFlight' = v.inFlight
    /\ stateExpandedMediaIds' = v.stateExpandedMediaIds
    /\ muted' = v.muted
    /\ boxWidth' = v.boxWidth
    /\ settingExpand' = v.settingExpand
    /\ missingMediaInfo' = v.missingMediaInfo
    /\ did' = [op |-> v.op, threw |-> v.threw, refresh |-> v.refresh, count |-> v.count,
               wasRunning |-> v.wasRunning]

\* The state a handler leaves that does not scroll.
Commit(w) == CommitView(w) /\ UNCHANGED <<sel, scroll>>

\* The view as a handler named op finds it.
Begin(op) ==
    [View EXCEPT !.op = op, !.threw = FALSE, !.refresh = NoRefresh, !.count = @ + 1,
                 !.wasRunning = loadPageRunner.isRunning]

\* A choice of the page that does not look at the nearby flags of the edge thumbs.
DataSourcePageToLoadAtAnyEdge(v) ==
    IF v.dataSource # NoDataSource
        /\ ~IsPageLoadedOrLoading(v.pages, v.dataSource, InitialPage(v.dataSource))
    THEN InitialPage(v.dataSource)
    ELSE IF v.thumbs = <<>> THEN NoPage
    ELSE LET lastThumb == v.thumbs[Len(v.thumbs)]
             firstThumb == v.thumbs[1]
         IN  IF /\ CanLoadPage(v.dataSource, lastThumb.searchPage + 1)
                /\ ~IsPageLoadedOrLoading(v.pages, v.dataSource, lastThumb.searchPage + 1)
             THEN lastThumb.searchPage + 1
             ELSE IF ~IsPageLoadedOrLoading(v.pages, v.dataSource, firstThumb.searchPage - 1)
             THEN firstThumb.searchPage - 1
             ELSE NoPage

\* A choice of the page that looks at the first thumb before the last.
DataSourcePageToLoadBackwardFirst(v) ==
    IF v.dataSource # NoDataSource
        /\ ~IsPageLoadedOrLoading(v.pages, v.dataSource, InitialPage(v.dataSource))
    THEN InitialPage(v.dataSource)
    ELSE IF v.thumbs = <<>> THEN NoPage
    ELSE LET lastThumb == v.thumbs[Len(v.thumbs)]
             firstThumb == v.thumbs[1]
         IN  IF /\ firstThumb.nearby
                /\ ~IsPageLoadedOrLoading(v.pages, v.dataSource, firstThumb.searchPage - 1)
             THEN firstThumb.searchPage - 1
             ELSE IF /\ lastThumb.nearby
                     /\ CanLoadPage(v.dataSource, lastThumb.searchPage + 1)
                     /\ ~IsPageLoadedOrLoading(v.pages, v.dataSource, lastThumb.searchPage + 1)
             THEN lastThumb.searchPage + 1
             ELSE NoPage

\* get _dataSourcePageToLoad
DataSourcePageToLoad(v) ==
    IF v.dataSource # NoDataSource
        /\ ~IsPageLoadedOrLoading(v.pages, v.dataSource, InitialPage(v.dataSource))
    THEN InitialPage(v.dataSource)
    ELSE IF v.thumbs = <<>> THEN NoPage
    ELSE LET lastThumb == v.thumbs[Len(v.thumbs)]
             firstThumb == v.thumbs[1]
         IN  IF /\ lastThumb.nearby
                /\ CanLoadPage(v.dataSource, lastThumb.searchPage + 1)
                /\ ~IsPageLoadedOrLoading(v.pages, v.dataSource, lastThumb.searchPage + 1)
             THEN lastThumb.searchPage + 1
             ELSE IF /\ firstThumb.nearby
                     /\ ~IsPageLoadedOrLoading(v.pages, v.dataSource, firstThumb.searchPage - 1)
             THEN firstThumb.searchPage - 1
             ELSE NoPage

\* dataSource.loadPage(page): the request is outstanding until the data source resolves it.
DataSourceLoadPage(v, page) ==
    [v EXCEPT !.inFlight = Append(@, [ds |-> v.dataSource, page |-> page]),
              !.pages[v.dataSource].loading =
                    IF CanLoadPage(v.dataSource, page) THEN @ \cup {page} ELSE @]

\* _loadDataSourcePageInner up to its await.
LoadDataSourcePageInner(v) ==
    LET loadPage == DataSourcePageToLoad(v)
    IN  IF loadPage = NoPage THEN v
        ELSE DataSourceLoadPage([v EXCEPT !.noResultsHidden = TRUE,
                                          !.loadPageRunner.isRunning = TRUE], loadPage)

\* A loadDataSourcePage that does not go through the runner's guard.
LoadDataSourcePageUnguarded(v) == LoadDataSourcePageInner(v)

\* loadDataSourcePage()
LoadDataSourcePage(v) ==
    IF v.loadPageRunner.isRunning THEN v
    ELSE LoadDataSourcePageInner(v)

\* loadExpandedMediaIds()
LoadExpandedMediaIds(v) ==
    IF v.dataSource = NoDataSource
    THEN [v EXCEPT !.expandedMediaIds = EmptyMap, !.mediaIdsExpandedByDefault = v.settingExpand]
    ELSE [v EXCEPT !.expandedMediaIds = v.stateExpandedMediaIds[v.dataSource],
                   !.mediaIdsExpandedByDefault = v.settingExpand]

\* scrollToMediaId(mediaId); the scroll position itself is not part of the state.
ScrollToMediaId(v, mediaId) ==
    IF mediaId = Null THEN v ELSE RefreshImages(v, mediaId, FALSE, Null)

\* _setDataSource after its await: the initial refresh and the scroll to the target.
SetDataSourceResume(v, savedScrollId) ==
    LET targetMediaId == v.setDataSourceRunner.targetMediaId
    IN  Let(RefreshImages(v, IF targetMediaId # Null THEN targetMediaId ELSE v.scrollMediaId,
                          FALSE, savedScrollId), LAMBDA v1 :
        [(IF v1.threw THEN v1 ELSE ScrollToMediaId(v1, targetMediaId))
            EXCEPT !.setDataSourceRunner = IdleRunner])

\* A setDataSource that clears the view and goes on with the data source it had, if
\* it had one.
SetDataSourceCallKeepsSource(v, ds, targetMediaId, savedScrollId) ==
    Let(IF ds # v.dataSource
        THEN [v EXCEPT !.thumbs = <<>>, !.rows = <<>>, !.cache = EmptyMap,
                       !.dataSource = IF @ = NoDataSource THEN ds ELSE @]
        ELSE v,
        LAMBDA v1 :
    Let(LoadDataSourcePage(
            [LoadExpandedMediaIds(v1) EXCEPT !.setDataSourceRunner =
                [isRunning |-> TRUE, dataSource |-> ds, targetMediaId |-> targetMediaId]]),
        LAMBDA v3 :
    IF v3.loadPageRunner.isRunning THEN v3 ELSE SetDataSourceResume(v3, savedScrollId)))

\* setDataSource(dataSource, {targetMediaId}) up to the await of the page load, and
\* beyond it when no load is awaited.
SetDataSourceCall(v, ds, targetMediaId, savedScrollId) ==
    Let(IF ds # v.dataSource
        THEN [v EXCEPT !.thumbs = <<>>, !.rows = <<>>, !.cache = EmptyMap, !.dataSource = ds]
        ELSE v,
        LAMBDA v1 :
    Let(LoadDataSourcePage(
            [LoadExpandedMediaIds(v1) EXCEPT !.setDataSourceRunner =
                [isRunning |-> TRUE, dataSource |-> ds, targetMediaId |-> targetMediaId]]),
        LAMBDA v3 :
    IF v3.loadPageRunner.isRunning THEN v3 ELSE SetDataSourceResume(v3, savedScrollId)))

\* The data source resolves the oldest outstanding loadPage.
ResolveLoadPage(v) ==
    LET req == Head(v.inFlight)
    IN  [v EXCEPT !.inFlight = Tail(@),
                  !.pages[req.ds].loading = @ \ {req.page},
                  !.pages[req.ds].loaded =
                        IF CanLoadPage(req.ds, req.page) THEN @ \cup {req.page} ELSE @]

\* Bound on the pending sleep(100) continuations.
MaxSleepers == 1

\* _loadDataSourcePageInner after its await, then whoever awaits the runner's promise.
LoadDataSourcePageResume(v, savedScrollId) ==
    Let(IF ~v.setDataSourceRunner.isRunning
        THEN RefreshImages(v, Null, FALSE, savedScrollId) ELSE v,
        LAMBDA v1 :
    Let(IF v1.threw THEN v1
        ELSE [v1 EXCEPT !.noResultsHidden =
                              IF v1.dataSource # NoDataSource
                                  /\ HasNoResults(v1.pages, v1.dataSource) THEN FALSE ELSE @,
                        !.sleepers = Min(@ + 1, MaxSleepers)],
        LAMBDA v2 :
    Let([v2 EXCEPT !.loadPageRunner.isRunning = FALSE], LAMBDA v3 :
    IF v3.setDataSourceRunner.isRunning
    THEN IF v3.threw THEN [v3 EXCEPT !.setDataSourceRunner = IdleRunner]
         ELSE SetDataSourceResume(v3, savedScrollId)
    ELSE v3)))

\* An observer callback that refreshes and asks for no page.
NearbyObserverCallbackNoLoad(v, flags, savedScrollId) ==
    RefreshImages([v EXCEPT !.thumbs = [i \in 1..Len(v.thumbs) |->
                                            [v.thumbs[i] EXCEPT !.nearby = flags[i]]]],
                  Null, FALSE, savedScrollId)

\* The "nearby" observer's callback: flags is the new nearby flag of each thumb.
NearbyObserverCallback(v, flags, savedScrollId) ==
    LET v1 == [v EXCEPT !.thumbs = [i \in 1..Len(v.thumbs) |-> [v.thumbs[i] EXCEPT !.nearby = flags[i]]]]
    IN  Let(RefreshImages(v1, Null, FALSE, savedScrollId), LAMBDA v2 :
        IF v2.threw THEN v2 ELSE LoadDataSourcePage(v2))

\* setMediaIdExpanded(mediaId, newValue)
SetMediaIdExpanded(v, mediaId0, newValue, savedScrollId) ==
    LET mediaId == GetMediaIdFirstPage(mediaId0)
        expanded == [id \in DOMAIN v.expandedMediaIds \cup {mediaId} |->
                        IF id = mediaId THEN newValue ELSE v.expandedMediaIds[id]]
        v1 == [v EXCEPT !.expandedMediaIds = expanded,
                        !.cache = [id \in DOMAIN v.cache \ {mediaId} |-> v.cache[id]],
                        !.stateExpandedMediaIds[v.dataSource] = expanded]
    IN  Let(RefreshImages(v1, Null, TRUE, savedScrollId), LAMBDA v2 :
        IF v2.threw \/ newValue THEN v2 ELSE ScrollToMediaId(v2, mediaId))

\* thumbnailClick on the manga page toggle of a thumb
ThumbnailClick(v, mediaId, savedScrollId) ==
    SetMediaIdExpanded([v EXCEPT !.cache = CacheAfter(v, {mediaId})], mediaId,
                       ~IsMediaIdExpanded(v, mediaId), savedScrollId)

\* setupThumb's _setThumbnailSize: the tile gets its preferred size again.
RECURSIVE SetThumbnailSize(_, _)
SetThumbnailSize(children, style) ==
    IF children = <<>> THEN <<>>
    ELSE <<[CreateNode(style, Head(children).id) EXCEPT !.id = Head(children).id]>>
            \o SetThumbnailSize(Tail(children), style)

\* The two "mutes-changed" listeners: the cache is dropped, then refreshAfterMuteChange
\* runs setupThumb on every thumb.
RefreshAfterMuteChange(v) ==
    LET v2 == [v EXCEPT !.cache = EmptyMap,
                        !.rows = [r \in 1..Len(v.rows) |->
                                    [v.rows[r] EXCEPT !.children = SetThumbnailSize(@, v.sizingStyle)]]]
    IN  IF v.dataSource # NoDataSource /\ AllowExpandingMangaPages(v.dataSource)
        THEN [v2 EXCEPT !.cache = CacheAfter(v2, {v.thumbs[i].id : i \in 1..Len(v.thumbs)})]
        ELSE v2

----------------------------------------------------------------------------
(* The view's life: construction, then its handlers in any order *)

\* Number of handlers run in a behaviour.
MaxSteps == 5
\* Whether the behaviour goes on.
Running == did.count < MaxSteps

\* Widths of the thumbnail box.
BoxWidths == {700, 1000}

\* No getMediaIdsToDisplay call of the selection specification.
SelIdle == [all |-> <<>>, thumbs |-> <<>>, target |-> Null, height |-> 0, ios |-> FALSE,
            called |-> FALSE, out |-> [startIdx |-> 0, endIdx |-> 0]]

NoPages == [ds \in DataSources |-> [loaded |-> {}, loading |-> {}]]

NoSavedScroll == [mediaId |-> Null, originalScrollTop |-> 0, originalOffsetTop |-> 0]

\* scrollPositionTimer before the first scheduleStoreScrollPosition: the field is not
\* set by the constructor.
NoTimer == 0

\* The scroll container at its top, nothing saved or restored; args.state.scroll of
\* the history state not set; no scroll event yet, and no timer.
ScrollAtTop == [scrollTop |-> 0, before |-> 0, called |-> FALSE, found |-> FALSE,
                restored |-> FALSE, anchorRow |-> 0,
                history |-> [set |-> FALSE, scrollPosition |-> NoSavedScroll],
                scrollPositionTimer |-> NoTimer, pending |-> {}, events |-> 0,
                storeCalls |-> <<>>]

\* The fields of the view as the constructor leaves them.
ConstructedView ==
    /\ dataSource = NoDataSource
    /\ thumbs = <<>>
    /\ expandedMediaIds = EmptyMap
    /\ mediaIdsExpandedByDefault = settingExpand
    /\ mediaIdExpandedCache = EmptyMap
    /\ loadPageRunner = [isRunning |-> FALSE]
    /\ setDataSourceRunner = IdleRunner
    /\ noResultsHidden = TRUE
    /\ sleepers = 0
    /\ inFlight = <<>>
    /\ stateExpandedMediaIds = [ds \in DataSources |-> EmptyMap]
    /\ muted = {}
    /\ boxWidth = 700
    /\ did = [op |-> "constructor", threw |-> FALSE, refresh |-> NoRefresh, count |-> 0,
              wasRunning |-> FALSE]

\* Everything but the rows and the sizing style, as the constructor leaves it.
Constructed ==
    /\ scroll = ScrollAtTop
    /\ ConstructedView

\* What the data sources hold when the view is made: nothing yet, or the pages of "A"
\* an earlier view of the search loaded.
InitialPages == {NoPages, [NoPages EXCEPT !["A"].loaded = {2, 3, 4}]}

Init ==
    /\ settingExpand \in BOOLEAN
    /\ pages \in InitialPages
    /\ missingMediaInfo = {}
    /\ Constructed
    /\ sizingStyle = NoSizingStyle
    /\ rows = <<>>
    /\ sel = SelIdle

\* The ids saveScrollPosition may find: the first tile of the row nearest the top of
\* the screen, which the scroll position makes the first row or the last.  A refresh
\* that does not purge makes no use of the id, and there Null stands for any.
SavedScrollIds(purges) ==
    IF ~purges \/ rows = <<>> THEN {Null}
    ELSE {IF rows[r].children = <<>> THEN Null ELSE rows[r].children[1].id : r \in {1, Len(rows)}}

\* Whether the sizing style made now differs from the one in use.
SizingStyleChanges(width) ==
    sizingStyle # NoSizingStyle /\ sizingStyle # MakeThumbnailSizingStyle(width)

\* The ids the host asks the view to show.
Targets(ds) ==
    IF ds = "A" THEN {Null, MediaId(IdsPerPage + 1, 0), MediaId(MangaPost[1], 2),
                      MediaId(MangaPost[1] + 1, 0)}
    ELSE IF ds = "B" THEN {Null, MediaId(1001, 0)}
    ELSE {Null, MediaId(2000 + LongLen \div 2, 0)}

\* The host shows a data source.
SetDataSource(ds) ==
    /\ Running
    /\ \E targetMediaId \in Targets(ds), savedScrollId \in SavedScrollIds(FALSE) :
        Commit(SetDataSourceCall(Begin("setDataSource"), ds, targetMediaId, savedScrollId))

\* The data source resolves a page load.
LoadPageDone ==
    /\ Running
    /\ inFlight # <<>>
    /\ \E savedScrollId \in SavedScrollIds(FALSE) :
        Commit(LoadDataSourcePageResume(ResolveLoadPage(Begin("loadPage")), savedScrollId))

\* A sleep(100) ends.
SleeperFires ==
    /\ Running
    /\ sleepers > 0
    /\ Commit(LoadDataSourcePage([Begin("sleep") EXCEPT !.sleepers = @ - 1]))

\* The nearby flags the observer may report: of no thumb, of the first, of the last, of all.
NearbyFlags(n) ==
    {[i \in 1..n |-> FALSE], [i \in 1..n |-> i = 1], [i \in 1..n |-> i = n], [i \in 1..n |-> TRUE]}

\* The user scrolls: the nearby observer fires.
NearbyObserver ==
    /\ Running
    /\ thumbs # <<>>
    /\ \E flags \in NearbyFlags(Len(thumbs)), savedScrollId \in SavedScrollIds(FALSE) :
        Commit(NearbyObserverCallback(Begin("nearby-observer"), flags, savedScrollId))

\* The window is resized: the ResizeObserver fires.
Resize ==
    /\ Running
    /\ \E width \in BoxWidths \ {boxWidth} :
        \E savedScrollId \in SavedScrollIds(SizingStyleChanges(width)) :
        Commit(RefreshImages([Begin("resize") EXCEPT !.boxWidth = width], Null, FALSE, savedScrollId))

\* The user clicks the page count of a thumb of a multi-page post.
ToggleExpanded ==
    /\ Running
    /\ \E i \in 1..Len(thumbs), savedScrollId \in SavedScrollIds(TRUE) :
        /\ PageCount(thumbs[i].id) > 1
        /\ Commit(ThumbnailClick(Begin("thumbnailClick"), thumbs[i].id, savedScrollId))

\* The user mutes or unmutes the manga post.
MutesChanged ==
    /\ Running
    /\ Commit(RefreshAfterMuteChange(
            [Begin("mutes-changed") EXCEPT !.muted = IF MangaPost \in @ THEN @ \ {MangaPost}
                                                     ELSE @ \cup {MangaPost}]))

\* The host comes back from an image and scrolls to it.
ScrollTo ==
    /\ Running
    /\ dataSource # NoDataSource
    /\ \E mediaId \in Targets(dataSource) \ {Null} :
        Commit(ScrollToMediaId(Begin("scrollToMediaId"), mediaId))

Next ==
    \/ \E ds \in {"A", "B"} : SetDataSource(ds)
    \/ LoadPageDone
    \/ SleeperFires
    \/ NearbyObserver
    \/ Resize
    \/ ToggleExpanded
    \/ MutesChanged
    \/ ScrollTo

Spec == Init /\ [][Next]_vars

----------------------------------------------------------------------------
(* Scrolling through the long data source *)

ScrollNext ==
    \/ SetDataSource("L")
    \/ LoadPageDone
    \/ SleeperFires
    \/ NearbyObserver
    \/ ScrollTo

SpecScroll == Init /\ [][ScrollNext]_vars

----------------------------------------------------------------------------
(* getMediaIdsToDisplay on its own: one call on inputs drawn from bounded sets *)

\* Length of the longest id list of the selection specification.
SelMaxLen == 60
\* Most thumbs materialized in an input of the selection specification.
SelMaxThumbs == 3

\* The length of the id list of the scenario of the window selector.
ScenarioIds == 500
SelLens == {0, 1, 3, SelMaxLen \div 2, SelMaxLen, ScenarioIds}
SelFirsts == {1, 2, SelMaxLen \div 2 - 2, SelMaxLen - 1}
SelTargets == {1, 3, SelMaxLen \div 2 - 1, SelMaxLen - 15, SelMaxLen, SelMaxLen + 5}
SelHeights == {100, 200, 1000}
SelStyle == [padding |-> 15, containerWidth |-> 615, desiredPixels |-> 90000]

\* The ids first..first+count-1 materialized (in the opposite order when backwards),
\* those at positions nearLo..nearHi nearby.
SelThumbs(first, count, nearLo, nearHi, backwards) ==
    [i \in 1..count |->
        [id |-> MediaId(IF backwards THEN first + count - i ELSE first + i - 1, 0),
         searchPage |-> 1, nearby |-> (nearLo <= i /\ i <= nearHi)]]

SelInit ==
    /\ \E n \in SelLens, first \in SelFirsts, count \in 0..SelMaxThumbs,
          nearLo \in 1..(SelMaxThumbs + 1), nearHi \in 0..SelMaxThumbs,
          target \in {Null} \cup {MediaId(t, 0) : t \in SelTargets},
          height \in SelHeights, ios \in BOOLEAN, backwards \in BOOLEAN :
            /\ nearLo <= nearHi + 1 /\ nearHi <= count
            /\ (nearLo > nearHi => nearLo = 1)
            /\ (backwards => count >= 2)
            /\ sel = [all |-> [i \in 1..n |-> MediaId(i, 0)],
                      thumbs |-> SelThumbs(first, count, nearLo, nearHi, backwards),
                      target |-> target, height |-> height, ios |-> ios,
                      called |-> FALSE, out |-> [startIdx |-> 0, endIdx |-> 0]]
    /\ sizingStyle = SelStyle
    /\ rows = <<>>
    /\ settingExpand = FALSE
    /\ pages = NoPages
    /\ missingMediaInfo = {}
    /\ Constructed

SelCall ==
    /\ ~sel.called
    /\ sel' = [sel EXCEPT !.called = TRUE,
                          !.out = GetMediaIdsToDisplay(sel.all, sel.target, sel.thumbs,
                                                       sizingStyle, sel.height, sel.ios)]
    /\ UNCHANGED <<rowVars, viewVars, scroll>>

SelNext == SelCall

SpecSelect == SelInit /\ [][SelNext]_vars

----------------------------------------------------------------------------
(* The row packer on its own: tiles of any size added at either edge *)

RowPaddings == {0, 3, 10, 15}
RowContainerWidths == {1000}
TileWidths == {300, 400}
TileHeights == {300, 400}

RECURSIVE CountTiles(_)
CountTiles(rs) == IF rs = <<>> THEN 0 ELSE Len(Head(rs).children) + CountTiles(Tail(rs))

RowInit ==
    /\ sizingStyle \in [padding: RowPaddings, containerWidth: RowContainerWidths]
    /\ rows = <<>>
    /\ sel = SelIdle
    /\ settingExpand = FALSE
    /\ pages = NoPages
    /\ missingMediaInfo = {}
    /\ Constructed

RowAddThumb ==
    /\ CountTiles(rows) < MaxTiles
    /\ \E w \in TileWidths, h \in TileHeights, atEnd \in BOOLEAN :
          rows' = AddThumbToRow(rows, Node(CountTiles(rows) + 1, w, h), atEnd, sizingStyle)
    /\ UNCHANGED <<sizingStyle, sel, viewVars, scroll>>

RowNext == RowAddThumb

SpecRow == RowInit /\ [][RowNext]_vars

----------------------------------------------------------------------------
(* Properties *)

\* The sizing style in use is the one of the box's width: only a resize changes it.
SizingStyleOfBox ==
    sizingStyle \in {NoSizingStyle, MakeThumbnailSizingStyle(boxWidth)}

\* Whether sub is found in seq as one run: same order, no gap.
IsContiguousSlice(sub, seq) ==
    \/ sub = <<>>
    \/ \E startIdx \in 0..(Len(seq) - Len(sub)) :
            Slice(seq, startIdx, startIdx + Len(sub) - 1) = sub

\* getDataSourceMediaIds().allMediaIds in the current state
CurrentAllMediaIds == EntryIds(GetDataSourceMediaIds(View).entries)
CurrentHasDuplicates == GetDataSourceMediaIds(View).duplicate

\* C1: after any sequence of handlers the keys of thumbs, in order, are a contiguous
\* slice of the current allMediaIds (when that list can be made at all, that is,
\* holds no id twice), and no id is a key twice.
C1_ThumbsContiguous ==
    ~CurrentHasDuplicates =>
        /\ IsContiguousSlice(ThumbIds(thumbs), CurrentAllMediaIds)
        /\ ~HasDuplicates(ThumbIds(thumbs))

\* The thumbs that take the area of two screens.
ScreenThumbs(style) ==
    (style.containerWidth * ViewportHeight * 2 + style.desiredPixels - 1) \div style.desiredPixels

\* The bound the viewport and the chunk sizes give: a screenful around one id, and a
\* chunk at each edge.
WindowBound == ScreenThumbs(sizingStyle) + 1 + chunkSizeForwards + chunkSizeBackwards(FALSE)

C3_RangeWithinList ==
    sel.called =>
        IF sel.all # <<>>
        THEN /\ 0 <= sel.out.startIdx
             /\ sel.out.startIdx <= sel.out.endIdx
             /\ sel.out.endIdx <= Len(sel.all) - 1
             /\ Slice(sel.all, sel.out.startIdx, sel.out.endIdx) # <<>>
        ELSE /\ sel.out = [startIdx |-> 0, endIdx |-> 0]
             /\ Slice(sel.all, sel.out.startIdx, sel.out.endIdx) = <<>>

\* A call where the last thumb is nearby close to the end of the list, so that the
\* chunk added forwards leaves the list, and one where the thumbs are out of order.
C3_Witness ==
    /\ sel.called
    /\ sel.thumbs # <<>>
    /\ sel.thumbs[Len(sel.thumbs)].nearby
    /\ IndexOf(sel.all, sel.thumbs[Len(sel.thumbs)].id) + chunkSizeForwards > Len(sel.all) - 1
    /\ IndexOf(sel.all, sel.thumbs[Len(sel.thumbs)].id) # 0 - 1
    /\ IndexOf(sel.all, sel.thumbs[1].id) # 0 - 1
    /\ sel.out.endIdx = Len(sel.all) - 1

\* The width a row takes: its tiles and the gaps between them.
RowTotalWidth(row, style) ==
    SumStyleWidth(row.children) + Px(style.padding) * (Len(row.children) - 1)

\* C6: a closed row with tiles is as wide as the container, up to the rounding of
\* the tiles' widths (one pixel a tile at the very most).
C6_ClosedRowFillsContainer ==
    \A r \in 1..Len(rows) :
        (~rows[r].open /\ rows[r].children # <<>>) =>
            Abs(RowTotalWidth(rows[r], sizingStyle) - Px(sizingStyle.containerWidth))
                <= Px(Len(rows[r].children))

\* The tiles of all rows, in order.
RECURSIVE RowTiles(_)
RowTiles(rs) == IF rs = <<>> THEN <<>> ELSE Head(rs).children \o RowTiles(Tail(rs))

\* The scenario: container 1000 wide, gap 10, four 300x300 tiles added at the end.
ScenarioFourTiles ==
    /\ sizingStyle.containerWidth = 1000
    /\ sizingStyle.padding = 10
    /\ Len(RowTiles(rows)) = 4
    /\ \A i \in 1..4 : /\ RowTiles(rows)[i].id = i
                       /\ RowTiles(rows)[i].thumbWidth = 300
                       /\ RowTiles(rows)[i].thumbHeight = 300

\* C7: in the scenario the first three tiles share a row which the fourth closes, and
\* the closed row is exactly 1000 wide, each tile 326.7 to a tenth of a pixel.
C7_ScenarioRowExact ==
    ScenarioFourTiles =>
        /\ Len(rows) = 2
        /\ ~rows[1].open /\ Len(rows[1].children) = 3
        /\ rows[2].open /\ Len(rows[2].children) = 1
        /\ Abs(RowTotalWidth(rows[1], sizingStyle) - Px(1000)) <= 3
        /\ \A i \in 1..3 : (rows[1].children[i].w * 10 + Scale \div 2) \div Scale = 3267

\* C4: a refreshImages whose target is in allMediaIds selects a range holding the
\* target's index, and leaves the target with a thumb.
C4_TargetMaterialized ==
    (did.refresh.called /\ ~did.refresh.threw /\ did.refresh.target # Null
        /\ did.refresh.targetIdx # 0 - 1) =>
            /\ did.refresh.startIdx <= did.refresh.targetIdx
            /\ did.refresh.targetIdx <= did.refresh.endIdx
            /\ HasThumb(thumbs, did.refresh.target)

\* C5: a refreshImages that wants exactly the ids materialized creates no thumb,
\* destroys no thumb, and leaves the rows as they are.
C5_UnchangedWindowNoChurn ==
    (did.refresh.called /\ ~did.refresh.threw /\ did.refresh.desired = did.refresh.current) =>
        /\ did.refresh.created = 0
        /\ did.refresh.destroyed = 0
        /\ did.refresh.rowsKept
        /\ ThumbIds(thumbs) = did.refresh.before

\* A refresh with thumbs materialized that wanted just those.
C5_Witness ==
    /\ did.refresh.called /\ ~did.refresh.threw
    /\ did.refresh.current # <<>>
    /\ did.refresh.desired = did.refresh.current
    /\ Len(rows) >= 2

\* C8: with an id twice in the list, refreshImages throws and thumbs and rows are
\* what they were before the call.
C8_DuplicateLeavesViewUntouched ==
    /\ (did.refresh.called /\ CurrentHasDuplicates) => did.refresh.threw
    /\ did.refresh.threw =>
            /\ ThumbIds(thumbs) = did.refresh.before
            /\ did.refresh.rowsKept

\* C9: no handler leaves two page loads of the view outstanding; a handler that
\* finds a load running issues no dataSource.loadPage, and a setDataSource that
\* finds one running waits for that load.
C9_SingleFlight ==
    [][/\ Len(inFlight') <= 1
       /\ loadPageRunner.isRunning => Len(inFlight') <= Len(inFlight)
       /\ (loadPageRunner.isRunning /\ did'.op = "setDataSource") =>
                (setDataSourceRunner'.isRunning /\ inFlight' = inFlight)]_vars

\* The observer found the last thumb nearby and the next page wanted while a load
\* was running, and left the load as it was.
C9_Witness ==
    /\ did.op = "nearby-observer"
    /\ did.wasRunning
    /\ ~did.threw
    /\ Len(inFlight) = 1
    /\ thumbs[Len(thumbs)].nearby
    /\ CanLoadPage(dataSource, thumbs[Len(thumbs)].searchPage + 1)
    /\ ~IsPageLoadedOrLoading(pages, dataSource, thumbs[Len(thumbs)].searchPage + 1)

\* Pages 2..4 of "A" loaded, the last thumb on page 4 and nearby.
PaginationScenario ==
    /\ dataSource = "A"
    /\ pages["A"].loaded = {2, 3, 4}
    /\ thumbs # <<>>
    /\ thumbs[Len(thumbs)].searchPage = 4
    /\ thumbs[Len(thumbs)].nearby

RequestOfPage5 == [ds |-> "A", page |-> 5]

\* C10: in the scenario, the observer's callback that finds no load outstanding
\* requests page 5, and every callback before that load resolves leaves it the one
\* request.
C10_Page5RequestedOnce ==
    [][(did'.op = "nearby-observer" /\ ~did'.threw /\ PaginationScenario') =>
            /\ inFlight = <<>> => inFlight' = <<RequestOfPage5>>
            /\ inFlight = <<RequestOfPage5>> => inFlight' = <<RequestOfPage5>>]_vars

\* The observer fired again in the scenario while the load of page 5 was outstanding.
C10_Witness ==
    /\ PaginationScenario
    /\ did.op = "nearby-observer"
    /\ did.wasRunning
    /\ inFlight = <<RequestOfPage5>>

\* The request a step adds to the outstanding ones, when it adds one.
IssuesRequest == Len(inFlight') > Len(inFlight)
NewRequest == inFlight'[Len(inFlight')]

\* C11: a page the view requests because an edge thumb is nearby (any page but the
\* initial one) is, when requested, neither loaded nor loading, and canLoadPage
\* allows it.
C11_RequestedPagesLoadable ==
    [][(IssuesRequest /\ NewRequest.page # InitialPage(NewRequest.ds)) =>
            /\ ~IsPageLoadedOrLoading(pages, NewRequest.ds, NewRequest.page)
            /\ CanLoadPage(NewRequest.ds, NewRequest.page)]_vars

----------------------------------------------------------------------------
(* Scroll anchor: saveScrollPosition and restoreScrollPosition *)

\* Number of tiles the scroll-anchor specification adds.
AnchorMaxTiles == 3

\* The layout height of a row: that of its tallest tile.
RECURSIVE RowHeight(_)
RowHeight(children) ==
    IF children = <<>> THEN 0
    ELSE Max(Head(children).h, RowHeight(Tail(children)))

\* The distance from the top of the scroll container's content to the top of row k.
RECURSIVE RowTop(_, _)
RowTop(rs, k) == IF k <= 1 THEN 0 ELSE RowTop(rs, k - 1) + RowHeight(rs[k - 1].children)

\* row.offsetTop, and node.offsetTop of a tile of that row, in whole px.
RowOffsetTop(rs, k) == Offset(RowTop(rs, k))

\* scrollContainer.scrollHeight as a CSS length.
ScrollHeight(rs) == RowTop(rs, Len(rs) + 1)

\* Assigning scrollTop: the browser keeps it between 0 and the scrollable range.
ClampScrollTop(rs, value) == Max(0, Min(value, ScrollHeight(rs) - Px(ViewportHeight)))

NoNode == [row |-> 0, id |-> Null]

\* The loop of getFirstFullyOnscreenThumb over rows k..: the row nearest to screenTop,
\* a later row only when it is strictly nearer.
RECURSIVE CenterRow(_, _, _, _, _)
CenterRow(rs, k, screenTop, bestDistance, centerRow) ==
    IF k > Len(rs) THEN centerRow
    ELSE IF Abs(Px(RowOffsetTop(rs, k)) - screenTop) < Abs(bestDistance)
         THEN CenterRow(rs, k + 1, screenTop, Abs(Px(RowOffsetTop(rs, k)) - screenTop), k)
         ELSE CenterRow(rs, k + 1, screenTop, bestDistance, centerRow)

\* getFirstFullyOnscreenThumb: the first tile of the row nearest to a quarter into the screen.
GetFirstFullyOnscreenThumb(rs, scrollTop) ==
    Let(CenterRow(rs, 1, scrollTop + (Px(ViewportHeight) \div 4), Px(999999), 0),
        LAMBDA centerRow :
            IF centerRow = 0 \/ rs[centerRow].children = <<>> THEN NoNode
            ELSE [row |-> centerRow, id |-> rs[centerRow].children[1].id])

\* helpers.html.saveScrollPosition and the record saveScrollPosition wraps it in.
SaveScrollPosition(rs, scrollTop) ==
    Let(GetFirstFullyOnscreenThumb(rs, scrollTop),
        LAMBDA firstVisibleThumbNode :
            IF firstVisibleThumbNode = NoNode THEN NoSavedScroll
            ELSE [mediaId |-> firstVisibleThumbNode.id,
                  originalScrollTop |-> scrollTop,
                  originalOffsetTop |-> RowOffsetTop(rs, firstVisibleThumbNode.row)])

\* A lookup that answers with the first tile of the view, whatever is asked for.
GetThumbnailForMediaIdFirstTile(ths, rs, mediaId) ==
    IF rs = <<>> \/ rs[1].children = <<>> THEN NoNode
    ELSE [row |-> 1, id |-> rs[1].children[1].id]

\* getThumbnailForMediaId(mediaId): this.thumbs[mediaId], the tile of that id.
GetThumbnailForMediaId(ths, rs, mediaId) ==
    IF ~HasThumb(ths, mediaId) THEN NoNode
    ELSE IF \E k \in 1..Len(rs) : \E c \in 1..Len(rs[k].children) : rs[k].children[c].id = mediaId
         THEN [row |-> CHOOSE k \in 1..Len(rs) :
                          \E c \in 1..Len(rs[k].children) : rs[k].children[c].id = mediaId,
               id |-> mediaId]
         ELSE NoNode

\* restoreScrollPosition(scroll): whether it restored, and scrollTop afterwards.
RestoreScrollPosition(ths, rs, scrollTop, saved) ==
    IF saved = NoSavedScroll THEN [ok |-> FALSE, scrollTop |-> scrollTop]
    ELSE Let(GetThumbnailForMediaId(ths, rs, saved.mediaId),
             LAMBDA restoreScrollPositionNode :
                 IF restoreScrollPositionNode = NoNode
                 THEN [ok |-> FALSE, scrollTop |-> scrollTop]
                 ELSE [ok |-> TRUE,
                       scrollTop |->
                          ClampScrollTop(rs,
                              ClampScrollTop(rs, saved.originalScrollTop)
                              + Px(RowOffsetTop(rs, restoreScrollPositionNode.row)
                                   - saved.originalOffsetTop))])

AnchorContainerWidths == {500, 1000}
AnchorPaddings == {0, 15}
AnchorTileWidths == {300}

AnchorInit ==
    /\ sizingStyle \in [padding: AnchorPaddings, containerWidth: AnchorContainerWidths]
    /\ rows = <<>>
    /\ sel = SelIdle
    /\ settingExpand = FALSE
    /\ pages = NoPages
    /\ missingMediaInfo = {}
    /\ Constructed

anchorVars == <<dataSource, sizingStyle, expandedMediaIds, mediaIdsExpandedByDefault,
                mediaIdExpandedCache, loadPageRunner, setDataSourceRunner, noResultsHidden,
                sleepers, pages, inFlight, stateExpandedMediaIds, muted, boxWidth,
                settingExpand, did, sel, missingMediaInfo>>

\* A thumb is created at either end of the view, as the loops of refreshImages do.
AnchorAddThumb ==
    /\ Len(thumbs) < AnchorMaxTiles
    /\ \E w \in AnchorTileWidths, h \in TileHeights, atEnd \in BOOLEAN :
          /\ thumbs' = IF atEnd THEN Append(thumbs, CreateThumb(MediaId(Len(thumbs) + 1, 0), 1))
                       ELSE <<CreateThumb(MediaId(Len(thumbs) + 1, 0), 1)>> \o thumbs
          /\ rows' = AddThumbToRow(rows, Node(MediaId(Len(thumbs) + 1, 0), w, h), atEnd,
                                   sizingStyle)
    /\ scroll' = [scroll EXCEPT !.scrollTop = ClampScrollTop(rows', @), !.called = FALSE]
    /\ UNCHANGED anchorVars

\* The positions the user scrolls to: every screen and half a pixel past it, and the
\* end of the range.
ScrollPositions(rs) ==
    {ClampScrollTop(rs, k * Px(ViewportHeight) + f) :
        k \in 0..((ScrollHeight(rs) \div Px(ViewportHeight)) + 1), f \in {0, Scale \div 2}}

UserScrolls ==
    /\ \E top \in ScrollPositions(rows) :
          /\ top # scroll.scrollTop
          /\ scroll' = [scroll EXCEPT !.scrollTop = top, !.called = FALSE]
    /\ UNCHANGED <<anchorVars, thumbs, rows>>

\* restoreScrollPosition(saveScrollPosition()), nothing in between.
AnchorRoundTrip ==
    /\ ~scroll.called
    /\ \E saved \in {SaveScrollPosition(rows, scroll.scrollTop)} :
       \E result \in {RestoreScrollPosition(thumbs, rows, scroll.scrollTop, saved)} :
          scroll' = [scroll EXCEPT
                        !.scrollTop = result.scrollTop, !.before = scroll.scrollTop,
                        !.called = TRUE, !.found = saved # NoSavedScroll,
                        !.restored = result.ok,
                        !.anchorRow = GetFirstFullyOnscreenThumb(rows, scroll.scrollTop).row]
    /\ UNCHANGED <<anchorVars, thumbs, rows>>

AnchorNext == AnchorAddThumb \/ UserScrolls \/ AnchorRoundTrip

SpecAnchor == AnchorInit /\ [][AnchorNext]_vars

\* C12: restoreScrollPosition(saveScrollPosition()) with nothing in between leaves
\* scrollTop where it was, whatever the scroll position and the rows, when a thumb exists.
C12_AnchorRoundTrip ==
    (scroll.called /\ thumbs # <<>>) => (scroll.restored /\ scroll.scrollTop = scroll.before)

\* The round trip anchored to a row below the first one, the view scrolled down.
C12_Witness ==
    /\ scroll.called /\ scroll.found /\ scroll.restored
    /\ scroll.anchorRow > 1
    /\ scroll.before > 0
    /\ Len(rows) >= 3

----------------------------------------------------------------------------
(* Flattening of expanded posts *)

\* The posts of the loaded pages lo..hi with their search pages, in the data source's order.
RECURSIVE PostsOfPages(_, _, _)
PostsOfPages(ds, lo, hi) ==
    IF lo > hi THEN <<>>
    ELSE [i \in 1..Len(MediaIdsByPage(ds, lo)) |-> [id |-> MediaIdsByPage(ds, lo)[i], page |-> lo]]
            \o PostsOfPages(ds, lo + 1, hi)

\* The number of ids a post is to be emitted as.
EmittedCount(v, post) ==
    IF IsMediaIdExpanded(v, post) /\ HasMediaInfo(v, post) /\ PageCount(post) > 1
    THEN PageCount(post) ELSE 1

\* The number of ids the first k posts are to be emitted as.
RECURSIVE EmittedBefore(_, _, _)
EmittedBefore(v, posts, k) ==
    IF k = 0 THEN 0 ELSE EmittedBefore(v, posts, k - 1) + EmittedCount(v, posts[k].id)

\* The posts getDataSourceMediaIds goes through in the present state.
CurrentPosts ==
    IF dataSource = NoDataSource \/ pages[dataSource].loaded = {} THEN <<>>
    ELSE PostsOfPages(dataSource, LowestLoadedPage(pages[dataSource].loaded),
                      HighestLoadedPage(pages[dataSource].loaded))

\* C13: getDataSourceMediaIds emits an expanded post whose known page count is n > 1 as
\* its n manga pages 0..n-1, in order and where the post stands, each mapped to the
\* post's search page; any other post is emitted as one id, itself.
C13_ExpandedPostsFlattened ==
    \A k \in 1..Len(CurrentPosts) :
        /\ Len(GetDataSourceMediaIds(View).entries) = EmittedBefore(View, CurrentPosts, Len(CurrentPosts))
        /\ \A i \in 1..EmittedCount(View, CurrentPosts[k].id) :
              GetDataSourceMediaIds(View).entries[EmittedBefore(View, CurrentPosts, k - 1) + i]
                = [id |-> IF EmittedCount(View, CurrentPosts[k].id) > 1
                          THEN MediaId(CurrentPosts[k].id[1], i - 1)
                          ELSE CurrentPosts[k].id,
                   page |-> CurrentPosts[k].page]

\* The manga post is loaded and expanded, with a post before it and one after it.
C13_Witness ==
    /\ dataSource = "A"
    /\ {2, 3} \subseteq pages["A"].loaded
    /\ IsMediaIdExpanded(View, MangaPost)
    /\ EmittedCount(View, MangaPost) = 3
    /\ Len(GetDataSourceMediaIds(View).entries) = Len(CurrentPosts) + 2

----------------------------------------------------------------------------
(* The first window *)

\* endIdx + 1 tiles of desiredPixels each cover two screens.
CoversTwoScreens(endIdx) ==
    (endIdx + 1) * sizingStyle.desiredPixels >= 2 * sizingStyle.containerWidth * sel.height

\* The least endIdx that covers two screens, or the last index when none does.
FirstWindowEnd ==
    IF \E e \in 0..(Len(sel.all) - 1) : CoversTwoScreens(e)
    THEN CHOOSE e \in 0..(Len(sel.all) - 1) :
            CoversTwoScreens(e) /\ \A d \in 0..(e - 1) : ~CoversTwoScreens(d)
    ELSE Len(sel.all) - 1

\* getMediaIdsToDisplay was called with no thumb materialized and no target.
FirstWindowCall == sel.called /\ sel.thumbs = <<>> /\ sel.target = Null

\* C14, as stated: with no thumb and no target the window is [0, endIdx] with the least
\* endIdx for which (endIdx+1)*desiredPixels >= 2*containerWidth*viewportHeight, or
\* length-1 if the ids run out first; of the 500 ids of the scenario it is a proper prefix.
C14_FirstWindow ==
    FirstWindowCall =>
        /\ sel.out.startIdx = 0
        /\ sel.out.endIdx = FirstWindowEnd
        /\ (Len(sel.all) = ScenarioIds => sel.out.endIdx < Len(sel.all) - 1)

\* C14, for a list that has ids: the same window.
C14_FirstWindowOfIds ==
    (FirstWindowCall /\ sel.all # <<>>) =>
        /\ sel.out.startIdx = 0
        /\ sel.out.endIdx = FirstWindowEnd
        /\ (Len(sel.all) = ScenarioIds => sel.out.endIdx < Len(sel.all) - 1)

\* The scenario: 500 ids, and a window of more than one of them.
C14_Witness ==
    /\ FirstWindowCall
    /\ Len(sel.all) = ScenarioIds
    /\ sel.out.endIdx > 0

----------------------------------------------------------------------------
(* Full and incremental refreshes *)

\* The last refreshImages of the last handler found its thumbs unchanged among the wanted ids.
RefreshWasIncremental == IncrementalUpdate(did.refresh.desired, did.refresh.current)

\* The last refreshImages was a full one, its target among the wanted ids.
FullRefreshWithTarget ==
    /\ did.refresh.called /\ ~did.refresh.threw
    /\ ~RefreshWasIncremental
    /\ did.refresh.target # Null
    /\ IndexOf(did.refresh.desired, did.refresh.target) # 0 - 1

\* C15: after a full refresh whose target is among the wanted ids, the target's thumb
\* is the first tile of its row.
C15_TargetStartsRow ==
    FullRefreshWithTarget =>
        \E k \in 1..Len(rows) :
            rows[k].children # <<>> /\ rows[k].children[1].id = did.refresh.target

\* The last refreshImages found thumbs materialized, and their ids unchanged among the
\* wanted ones.
MaterializedAmongDesired ==
    /\ did.refresh.called /\ ~did.refresh.threw
    /\ did.refresh.current # <<>>
    /\ IsContiguousSlice(did.refresh.current, did.refresh.desired)

\* C16: when the materialized ids appear unchanged inside the wanted ids, refreshImages
\* destroys or recreates no thumb and changes no closed row; it creates thumbs only for
\* the wanted ids after the last existing one and before the first existing one.
C16_IncrementalKeepsThumbsAndRows ==
    MaterializedAmongDesired =>
        /\ did.refresh.destroyed = 0
        /\ did.refresh.thumbsKept
        /\ did.refresh.closedRowsKept
        /\ ThumbIds(thumbs) = did.refresh.desired
        /\ did.refresh.created = Len(did.refresh.desired) - Len(did.refresh.current)

\* An incremental refresh that appended thumbs to a view with a closed row.
C16_Witness ==
    /\ MaterializedAmongDesired
    /\ did.refresh.created > 0
    /\ Len(rows) >= 2
    /\ \E k \in 1..Len(rows) : ~rows[k].open
    /\ did.refresh.current[1] = did.refresh.desired[1]

\* An incremental refresh that prepended thumbs.
C16_WitnessPrepended ==
    /\ MaterializedAmongDesired
    /\ did.refresh.current[1] # did.refresh.desired[1]

----------------------------------------------------------------------------
(* Page loads across a change of the data source *)

\* The step is the data source resolving a page load.
LoadCompletes == did'.op = "loadPage" /\ did'.count # did.count /\ inFlight # <<>>

\* The data source the view was last told to show.
ShownDataSource ==
    IF setDataSourceRunner.isRunning THEN setDataSourceRunner.dataSource ELSE dataSource

\* The ids of the pages of a data source loaded after the step, the manga pages of its
\* posts among them.
IdsOfDataSource(ds) ==
    IF ds = NoDataSource THEN {}
    ELSE {id \in UNION {{MediaId(MediaIdsByPage(ds, p)[i][1], pg) :
                            i \in 1..Len(MediaIdsByPage(ds, p)), pg \in 0..2} :
                        p \in pages'[ds].loaded} :
            id[2] < PageCount(id)}

\* C17: when a page load started for one data source completes after the view was
\* switched to another, every thumb afterwards is of the other's id list.
C17_StaleLoadMaterializesNothing ==
    [][(LoadCompletes /\ Head(inFlight).ds # ShownDataSource) =>
            \A i \in 1..Len(thumbs') : thumbs'[i].id \in IdsOfDataSource(ShownDataSource)]_vars

\* A page load has completed with "B" shown and no page of "B" loaded: a load for "A".
C17_Witness ==
    /\ did.op = "loadPage"
    /\ dataSource = "B"
    /\ pages["B"].loaded = {}
    /\ pages["A"].loaded # {}
    /\ inFlight = <<>>
    /\ did.refresh.called

\* The step is the one in which the promise of setDataSource resolves: the call itself
\* when it has no load to wait for, or else the completion of the load it waited for.
SetDataSourceResolves ==
    /\ did'.count # did.count
    /\ \/ did'.op = "setDataSource"
       \/ did'.op = "loadPage" /\ setDataSourceRunner.isRunning
    /\ ~setDataSourceRunner'.isRunning
    /\ ~did'.threw

\* The initial page of the data source shown is loaded and a refreshImages pass over
\* its ids is done.
InitialPageShown ==
    /\ InitialPage(dataSource') \in pages'[dataSource'].loaded
    /\ did'.refresh.called /\ ~did'.refresh.threw
    /\ ThumbIds(thumbs') = did'.refresh.desired

\* C18: when the promise of setDataSource(ds) resolves, ds's initial page is loaded and
\* a refreshImages pass over ds's ids is done, also when a page load for the previous
\* data source was in flight when setDataSource was called.
C18_ResolvedMeansInitialPageShown == [][SetDataSourceResolves => InitialPageShown]_vars

\* The same, of the calls that waited for no load of another data source.
C18_ResolvedAfterOwnLoad ==
    [][(SetDataSourceResolves /\ (did'.op = "loadPage" => Head(inFlight).ds = dataSource))
            => InitialPageShown]_vars

----------------------------------------------------------------------------
(* Posts whose media info is not in the media cache yet *)

\* The posts whose media info may be missing: the manga post, and the post before it.
LatePosts == {MangaPost, MediaId(MangaPost[1] - 1, 0)}

InfoInit ==
    /\ settingExpand \in BOOLEAN
    /\ pages = [NoPages EXCEPT !["A"].loaded = {2, 3, 4}]
    /\ missingMediaInfo \in (SUBSET LatePosts) \ {{}}
    /\ Constructed
    /\ sizingStyle = NoSizingStyle
    /\ rows = <<>>
    /\ sel = SelIdle

\* The media cache gets the media info of a post and reports "mediamodified";
\* refreshThumbnail refreshes the bookmark icons of the post's thumbs.
MediaInfoArrives ==
    /\ Running
    /\ \E post \in missingMediaInfo :
        Commit([Begin("mediamodified") EXCEPT !.missingMediaInfo = @ \ {post}])

InfoNext ==
    \/ SetDataSource("A")
    \/ NearbyObserver
    \/ Resize
    \/ MediaInfoArrives

SpecInfo == InfoInit /\ [][InfoNext]_vars

\* The number of ids getDataSourceMediaIds emits for the pages of a post.
EmittedIdsOf(post) ==
    Cardinality({i \in 1..Len(CurrentAllMediaIds) : CurrentAllMediaIds[i][1] = post[1]})

\* The manga post is loaded in a data source that expands, it is expanded by default,
\* neither muted nor set by the user.
MangaPostExpandedByDefault ==
    /\ dataSource = "A"
    /\ 3 \in pages["A"].loaded
    /\ mediaIdsExpandedByDefault
    /\ MangaPost \notin DOMAIN expandedMediaIds
    /\ MangaPost \notin muted

\* C19, first half: a post expanded by default whose page count is not known is
\* flattened as one id.
C19_UnknownCountOneId ==
    (MangaPostExpandedByDefault /\ MangaPost \in missingMediaInfo) => EmittedIdsOf(MangaPost) = 1

\* C19: a post expanded by default whose page count n > 1 has become known is flattened
\* into its n ids by a refresh that follows.
C19_KnownCountFlattened ==
    (MangaPostExpandedByDefault /\ MangaPost \notin missingMediaInfo
        /\ did.refresh.called /\ ~did.refresh.threw)
        => EmittedIdsOf(MangaPost) = PageCount(MangaPost)

\* C20: with the media info of an id of the wanted window missing, refreshImages
\* completes: no exception, every id of the window materialized, the tile of the id
\* of the base size thumbWidth x thumbHeight.
C20_MissingInfoStillRefreshes ==
    (did.refresh.called
        /\ \E i \in 1..Len(did.refresh.desired) :
                GetMediaIdFirstPage(did.refresh.desired[i]) \in missingMediaInfo)
        => /\ ~did.refresh.threw
           /\ ThumbIds(thumbs) = did.refresh.desired
           /\ \A i \in 1..Len(RowTiles(rows)) :
                GetMediaIdFirstPage(RowTiles(rows)[i].id) \in missingMediaInfo =>
                    /\ RowTiles(rows)[i].thumbWidth = sizingStyle.thumbWidth
                    /\ RowTiles(rows)[i].thumbHeight = sizingStyle.thumbHeight

----------------------------------------------------------------------------
(* Scroll events, the scroll position kept in the history state, and the view shown again *)

\* A scheduleStoreScrollPosition that sets its timer and clears none.
ScheduleStoreScrollPositionKeepsTimers(sc) ==
    [sc EXCEPT !.events = @ + 1, !.scrollPositionTimer = sc.events + 1,
               !.pending = @ \cup {sc.events + 1}]

\* scheduleStoreScrollPosition(): the timer of scrollPositionTimer is cleared unless the
\* field is -1, and a timer of 100 ms is set.  setTimeout hands out ascending ids:
\* events counts them, pending holds the timers set and neither cleared nor fired.
ScheduleStoreScrollPosition(sc) ==
    LET cleared == IF sc.scrollPositionTimer # 0 - 1
                   THEN sc.pending \ {sc.scrollPositionTimer} ELSE sc.pending
    IN  [sc EXCEPT !.events = @ + 1, !.scrollPositionTimer = sc.events + 1,
                   !.pending = cleared \cup {sc.events + 1}]

\* storeScrollPosition() in the view v: args.state.scroll is set to what
\* saveScrollPosition returns, unless setDataSource is running.
StoreScrollPosition(v, sc) ==
    IF v.setDataSourceRunner.isRunning THEN sc
    ELSE [sc EXCEPT !.history = [set |-> TRUE,
                                 scrollPosition |-> SaveScrollPosition(v.rows, sc.scrollTop)]]

\* An end of _setDataSource that leaves scrollTop alone when nothing is restored.
SetDataSourceScrollKeepsTop(v, sc) ==
    IF v.setDataSourceRunner.isRunning \/ v.threw THEN sc
    ELSE Let(RestoreScrollPosition(v.thumbs, v.rows, ClampScrollTop(v.rows, sc.scrollTop),
                                   sc.history.scrollPosition),
             LAMBDA result :
                 [sc EXCEPT !.before = sc.scrollTop, !.called = TRUE,
                            !.found = sc.history.scrollPosition # NoSavedScroll,
                            !.restored = result.ok,
                            !.scrollTop = IF result.ok THEN result.scrollTop ELSE sc.scrollTop])

\* The end of _setDataSource called with no target id, in the view v it has made:
\* the scroll position of the history state is restored, or scrollTop is set to 0.
SetDataSourceScroll(v, sc) ==
    IF v.setDataSourceRunner.isRunning \/ v.threw THEN sc
    ELSE Let(RestoreScrollPosition(v.thumbs, v.rows, ClampScrollTop(v.rows, sc.scrollTop),
                                   sc.history.scrollPosition),
             LAMBDA result :
                 [sc EXCEPT !.before = sc.scrollTop, !.called = TRUE,
                            !.found = sc.history.scrollPosition # NoSavedScroll,
                            !.restored = result.ok,
                            !.scrollTop = IF result.ok THEN result.scrollTop ELSE 0])

\* args.state.scroll as the page is opened with it: nothing, or the position of a
\* post of data source "A" that an earlier visit has left.
InitialHistories ==
    {ScrollAtTop.history,
     [set |-> TRUE,
      scrollPosition |-> [mediaId |-> MediaId(2 * IdsPerPage + 1, 0),
                          originalScrollTop |-> Px(ViewportHeight),
                          originalOffsetTop |-> Px(ViewportHeight)]]}

\* The initial pages of "A" and "L" are loaded: showing them awaits no load.
HistoryInit ==
    /\ settingExpand = FALSE
    /\ pages = [NoPages EXCEPT !["A"].loaded = {2, 3, 4}, !["L"].loaded = {1}]
    /\ missingMediaInfo = {}
    /\ \E history \in InitialHistories : scroll = [ScrollAtTop EXCEPT !.history = history]
    /\ ConstructedView
    /\ sizingStyle = NoSizingStyle
    /\ rows = <<>>
    /\ sel = SelIdle

\* The host shows a data source and names no target.
HistorySetDataSource(ds) ==
    /\ Running
    /\ \E saved \in {SaveScrollPosition(rows, scroll.scrollTop)} :
       \E v \in {SetDataSourceCall(Begin("setDataSource"), ds, Null, saved.mediaId)} :
          /\ CommitView(v)
          /\ scroll' = SetDataSourceScroll(v, scroll)
    /\ UNCHANGED sel

\* The user scrolls: the "scroll" listener of the scroll container runs.
ScrollEvent ==
    /\ Running
    /\ \E top \in ScrollPositions(rows) :
          /\ top # scroll.scrollTop
          /\ scroll' = ScheduleStoreScrollPosition(
                            [scroll EXCEPT !.scrollTop = top, !.called = FALSE])
    /\ CommitView(Begin("scroll"))
    /\ UNCHANGED sel

\* A timer that is pending fires: its callback runs storeScrollPosition.
TimerFires ==
    /\ Running
    /\ \E timer \in scroll.pending :
          scroll' = [StoreScrollPosition(View, scroll) EXCEPT
                        !.pending = @ \ {timer}, !.called = FALSE,
                        !.storeCalls = Append(@, [timer |-> timer, events |-> scroll.events])]
    /\ CommitView(Begin("storeScrollPosition"))
    /\ UNCHANGED sel

\* The ResizeObserver of the scroll container fires: the scroll position of the
\* history state is restored, when there is one.
ContainerResized ==
    /\ Running
    /\ scroll.history.set
    /\ \E result \in {RestoreScrollPosition(thumbs, rows, scroll.scrollTop,
                                            scroll.history.scrollPosition)} :
          scroll' = [scroll EXCEPT !.before = scroll.scrollTop, !.called = TRUE,
                                   !.found = scroll.history.scrollPosition # NoSavedScroll,
                                   !.restored = result.ok,
                                   !.scrollTop = result.scrollTop]
    /\ CommitView(Begin("restoreScrollPosition"))
    /\ UNCHANGED sel

HistoryNext ==
    \/ \E ds \in {"A", "L"} : HistorySetDataSource(ds)
    \/ ScrollEvent
    \/ TimerFires
    \/ ContainerResized

SpecHistory == HistoryInit /\ [][HistoryNext]_vars

\* The restoreScrollPosition just made was given no record, or the record of an id
\* that has no thumb.
RestoreMissed ==
    /\ scroll.called
    /\ \/ scroll.history.scrollPosition = NoSavedScroll
       \/ ~HasThumb(thumbs, scroll.history.scrollPosition.mediaId)

\* C21: restoreScrollPosition(record) returns false and leaves scrollTop as it was when
\* record is null or record.mediaId has no thumb; at the end of _setDataSource with no
\* target id, scrollTop is then set to 0.
C21_MissLeavesScrollTop ==
    RestoreMissed =>
        /\ ~scroll.restored
        /\ did.op = "restoreScrollPosition" => scroll.scrollTop = scroll.before
        /\ did.op = "setDataSource" => scroll.scrollTop = 0

\* The view was scrolled down when the record of an id without a thumb was to be
\* restored after a resize.
C21_Witness ==
    /\ RestoreMissed /\ did.op = "restoreScrollPosition"
    /\ scroll.history.scrollPosition # NoSavedScroll
    /\ scroll.before > 0

\* The view was scrolled down when a data source was shown whose thumbs the record
\* is not among.
C21_WitnessSetDataSource ==
    /\ RestoreMissed /\ did.op = "setDataSource"
    /\ scroll.before > 0

----------------------------------------------------------------------------
(* The "no results" indicator *)

\* C22: in every reachable state the "no results" indicator is visible only if the
\* current data source has no ids and nothing loading, and never while a thumb of the
\* current data source is materialized, also right after a data source change.
C22_NoResultsOnlyWhenEmpty ==
    ~noResultsHidden =>
        /\ dataSource # NoDataSource
        /\ HasNoResults(pages, dataSource)
        /\ thumbs = <<>>

----------------------------------------------------------------------------
(* The row saveScrollPosition anchors to *)

\* The rows whose top is at or below the line a quarter of the screen below scrollTop.
RowsAtOrBelowLine(rs, scrollTop) ==
    {k \in 1..Len(rs) : Px(RowOffsetTop(rs, k)) >= scrollTop + (Px(ViewportHeight) \div 4)}

\* C23: saveScrollPosition anchors to the first tile of the first row whose top is at
\* or below the line scrollTop + viewportHeight/4 whenever there is such a row, and to
\* no row above the line then.
C23_AnchorsAtOrBelowLine ==
    (scroll.called /\ did.op = "constructor" /\ RowsAtOrBelowLine(rows, scroll.before) # {})
        => scroll.anchorRow = MinOf(RowsAtOrBelowLine(rows, scroll.before))

----------------------------------------------------------------------------
(* The timer of scheduleStoreScrollPosition *)

\* The storeScrollPosition calls made by the timer that scroll event n has set.
StoreCallsOf(n) == {i \in 1..Len(scroll.storeCalls) : scroll.storeCalls[i].timer = n}

\* C24: scheduleStoreScrollPosition keeps at most one timer pending.  A burst of scroll
\* events with no timer firing in between causes one storeScrollPosition call: every
\* call is made by the timer of the last scroll event before it, no timer calls
\* twice, and the timer of the last event is pending exactly until it has called.
C24_OneStorePerBurst ==
    /\ Cardinality(scroll.pending) <= 1
    /\ \A i \in 1..Len(scroll.storeCalls) :
            /\ scroll.storeCalls[i].timer = scroll.storeCalls[i].events
            /\ StoreCallsOf(scroll.storeCalls[i].timer) = {i}
    /\ scroll.events > 0 =>
            (scroll.pending = {scroll.events}) # (StoreCallsOf(scroll.events) # {})

\* A burst of three scroll events has ended with the one call of its last timer.
C24_Witness ==
    /\ scroll.events = 3
    /\ Len(scroll.storeCalls) = 1
    /\ scroll.storeCalls[1].timer = 3
    /\ scroll.pending = {}

----------------------------------------------------------------------------
(* A refresh under a new sizing style *)

\* C25: if the sizing style made at the start of refreshImages differs from the one of
\* the call before, every thumb and row is destroyed and the view is built from
\* nothing, around the id of the saved scroll position (its first page, if the id has
\* left the list) when no target is given; if the style is the same and purge is
\* false, no thumb is destroyed for that.
C25_StyleChangeRebuilds ==
    did.refresh.called =>
        /\ did.refresh.styleChanged =>
            /\ did.refresh.purge
            /\ did.refresh.current = <<>>
            /\ did.refresh.destroyed = Len(did.refresh.before)
            /\ ~did.refresh.threw => did.refresh.created = Len(thumbs)
            /\ did.refresh.targetArg = Null =>
                /\ did.refresh.target \in {did.refresh.savedScroll,
                                           GetMediaIdFirstPage(did.refresh.savedScroll)}
                /\ (~did.refresh.threw /\ did.refresh.targetIdx # 0 - 1)
                        => HasThumb(thumbs, did.refresh.target)
        /\ (~did.refresh.styleChanged /\ ~did.refresh.purgeArg) =>
            /\ ~did.refresh.purge
            /\ did.refresh.current = did.refresh.before

\* A resize has changed the sizing style of a view that had thumbs, and the view is
\* built again around the saved scroll position.
C25_Witness ==
    /\ did.op = "resize" /\ did.refresh.styleChanged /\ ~did.refresh.threw
    /\ did.refresh.before # <<>>
    /\ did.refresh.savedScroll # Null
    /\ did.refresh.target = did.refresh.savedScroll
    /\ thumbs # <<>>

----------------------------------------------------------------------------
(* Explicit expansion overrides *)

\* C26: on a data source that allows expansion, the override that setMediaIdExpanded
\* has set for a post decides isMediaIdExpanded for every page id of the post,
\* whatever the default and the mutes, through every later refresh and page load,
\* until a later toggle changes it.
C26_OverrideDecides ==
    (dataSource # NoDataSource /\ AllowExpandingMangaPages(dataSource)) =>
        \A mediaId \in DOMAIN expandedMediaIds :
            \A page \in 0..(PageCount(mediaId) - 1) :
                IsMediaIdExpanded(View, MediaId(mediaId[1], page)) = expandedMediaIds[mediaId]

\* The same, of the id of the first page alone.
C26_OverrideDecidesFirstPage ==
    (dataSource # NoDataSource /\ AllowExpandingMangaPages(dataSource)) =>
        \A mediaId \in DOMAIN expandedMediaIds :
            IsMediaIdExpanded(View, mediaId) = expandedMediaIds[mediaId]

----------------------------------------------------------------------------
(* The seed of the window *)

\* getMediaIdsToDisplay is called with thumbs materialized and with no target that is
\* not materialized yet.
SeedFromThumbs ==
    /\ sel.all # <<>> /\ sel.thumbs # <<>>
    /\ sel.target = Null \/ HasThumb(sel.thumbs, sel.target)

\* The seed range the statement gives: the span of the materialized ids in the list,
\* with a chunk more at each end whose materialized id is the nearby one.
SeedStated ==
    [startIdx |-> IndexOf(sel.all, GetLoadedMediaIds(sel.thumbs)[1])
                    - (IF GetLoadedMediaIds(sel.thumbs)[1] = GetNearbyMediaIds(sel.thumbs)[1]
                       THEN chunkSizeBackwards(sel.ios) ELSE 0),
     endIdx |-> IndexOf(sel.all, GetLoadedMediaIds(sel.thumbs)[2])
                    + (IF GetLoadedMediaIds(sel.thumbs)[2] = GetNearbyMediaIds(sel.thumbs)[2]
                       THEN chunkSizeForwards ELSE 0)]

----------------------------------------------------------------------------
(* Rows that overflow *)

\* The ids of the tiles of a row, in order.
TileIds(row) == [i \in 1..Len(row.children) |-> row.children[i].id]

\* The step adds the tile n at the edge atEnd: to the open row of that edge if the row
\* has room for it; else to a new open row of its own, the row that was open at the
\* edge being closed with the tiles it had.  Every other row is left as it was.
TileAddedAtEdge(atEnd) ==
    LET n == CountTiles(rows) + 1
        j == IF atEnd THEN Len(rows') ELSE 1
        shift == IF atEnd THEN 0 ELSE Len(rows') - Len(rows)
        edge == IF atEnd THEN Len(rows) ELSE 1
        tile == rows'[j].children[IF atEnd THEN Len(rows'[j].children) ELSE 1]
    IN  /\ rows' # <<>> /\ rows'[j].open /\ rows'[j].children # <<>>
        /\ tile.id = n
        /\ \A k \in 1..Len(rows) : k # edge => rows'[k + shift] = rows[k]
        /\ \/ /\ Len(rows') = Len(rows) /\ rows # <<>>
              /\ rows[edge].open
              /\ rows'[j].children = InsertNode(rows[edge].children, tile, atEnd)
              /\ RowScrollWidth(rows'[j].children, sizingStyle) <= RowOffsetWidth(sizingStyle)
           \/ /\ Len(rows') = Len(rows) + 1
              /\ Len(rows'[j].children) = 1
              /\ rows # <<>> =>
                    IF rows[edge].open
                    THEN /\ RowScrollWidth(InsertNode(rows[edge].children, tile, atEnd),
                                           sizingStyle) > RowOffsetWidth(sizingStyle)
                         /\ ~rows'[edge + shift].open
                         /\ TileIds(rows'[edge + shift]) = TileIds(rows[edge])
                    ELSE rows'[edge + shift] = rows[edge]

\* C28: when a tile makes the open row at an edge overflow the container width, the
\* tile is taken out of the row, the row is closed, and the tile is the only tile of a
\* new open row at that edge; no tile is added to a closed row, and only the first
\* and the last row can be open.
C28_OverflowStartsNewRow ==
    [][/\ \E atEnd \in BOOLEAN : TileAddedAtEdge(atEnd)
       /\ \A k \in 1..Len(rows') : rows'[k].open => k \in {1, Len(rows')}]_vars

\* A row has overflowed at the beginning: the newest tile is alone in a new first row,
\* the row after it is closed with the two tiles or more it had.
C28_Witness ==
    /\ Len(rows) >= 2
    /\ rows[1].open /\ Len(rows[1].children) = 1
    /\ rows[1].children[1].id = CountTiles(rows)
    /\ ~rows[2].open /\ Len(rows[2].children) >= 2

----------------------------------------------------------------------------
(* Closed rows *)

\* Every row that is closed is among the rows after the step, with the tiles it had
\* in their order and their sizes.
ClosedRowsUnchanged ==
    \A k \in 1..Len(rows) :
        ~rows[k].open => \E j \in 1..Len(rows') : rows'[j] = rows[k]

\* The step is a handler that destroys no thumb: a mute change, or one refreshImages
\* that is incremental, after a nearby flag update, a resize or a scroll to an id.
StepDestroysNothing ==
    \/ did'.op = "mutes-changed"
    \/ /\ did'.op \in {"nearby-observer", "resize", "scrollToMediaId"}
       /\ did'.refresh.called /\ did'.refresh.destroyed = 0

\* Closed rows of square thumbs, all of the base size, are changed by no handler of
\* the view that destroys no thumb.
ClosedRowsOfSquaresFrozen == [][StepDestroysNothing => ClosedRowsUnchanged]_vars

\* setupThumb's _setThumbnailSize on the tiles of a row: _thumbnailSize gives each the
\* size it gave when the tile was made.
SetThumbnailSizeAgain(children) ==
    [i \in 1..Len(children) |->
        Node(children[i].id, children[i].thumbWidth, children[i].thumbHeight)]

\* refreshAfterMuteChange() over rows of tiles of any size.
RowRefreshAfterMuteChange ==
    /\ rows # <<>>
    /\ rows' = [r \in 1..Len(rows) |-> [rows[r] EXCEPT !.children = SetThumbnailSizeAgain(@)]]
    /\ UNCHANGED <<sizingStyle, sel, viewVars, scroll>>

RowMuteNext == RowAddThumb \/ RowRefreshAfterMuteChange

\* The row packer, and mute changes between its steps.
SpecRowMute == RowInit /\ [][RowMuteNext]_vars

\* C29: once a row is closed, its membership, the order of its tiles and their final
\* width and height are changed by no later operation (a tile added at either edge,
\* a mute change) until a full refresh destroys the row.
C29_ClosedRowsFrozen == [][ClosedRowsUnchanged]_vars

\* The same, of the tiles added at either edge alone.
C29_ClosedRowsFrozenByAdding ==
    [][CountTiles(rows') > CountTiles(rows) => ClosedRowsUnchanged]_vars

----------------------------------------------------------------------------
(* The height of a closed row *)

\* C30: after _closeRow has finished, all tiles of the row have the same height,
\* whatever the mix of aspect ratios of the tiles in the row.
C30_ClosedRowOneHeight ==
    \A k \in 1..Len(rows) :
        ~rows[k].open =>
            \A i, j \in 1..Len(rows[k].children) :
                rows[k].children[i].h = rows[k].children[j].h

\* A closed row of a portrait, a landscape and a square tile.
C30_Witness ==
    \E k \in 1..Len(rows) :
        /\ ~rows[k].open
        /\ \E i, j, l \in 1..Len(rows[k].children) :
            /\ rows[k].children[i].thumbWidth < rows[k].children[i].thumbHeight
            /\ rows[k].children[j].thumbWidth > rows[k].children[j].thumbHeight
            /\ rows[k].children[l].thumbWidth = rows[k].children[l].thumbHeight

----------------------------------------------------------------------------
(* The row packer with the tiles of the aspect thumbnail style *)

\* Math.round(Math.sqrt(num / den))
RoundSqrt(num, den) ==
    CHOOSE r \in 0..(2 * DesiredSize) :
        /\ (2 * r - 1) * (2 * r - 1) * den <= 4 * num
        /\ 4 * num < (2 * r + 1) * (2 * r + 1) * den

\* _thumbnailSize(mediaId) in the aspect style, for an image width x height: a tile
\* of the area desiredPixels with the aspect ratio of the image, in whole px.
AspectThumbnailSize(width, height) ==
    [thumbWidth |-> RoundSqrt(DesiredSize * DesiredSize * width, height),
     thumbHeight |-> RoundSqrt(DesiredSize * DesiredSize * height, width)]

\* The dimensions of the images: square, landscape and portrait.
ImageDimensions == {<<1, 1>>, <<4, 3>>, <<3, 4>>, <<2, 3>>}

\* The column counts of the containers: a narrow window and a wide one.
AspectColumns == {1, 4}

AspectInit ==
    /\ sizingStyle \in {[padding |-> Padding,
                         containerWidth |-> c * DesiredSize + (c - 1) * Padding] :
                            c \in AspectColumns}
    /\ rows = <<>>
    /\ sel = SelIdle
    /\ settingExpand = FALSE
    /\ pages = NoPages
    /\ missingMediaInfo = {}
    /\ Constructed

AspectAddThumb ==
    /\ CountTiles(rows) < MaxTiles
    /\ \E d \in ImageDimensions, atEnd \in BOOLEAN :
          Let(AspectThumbnailSize(d[1], d[2]), LAMBDA size :
              rows' = AddThumbToRow(rows, Node(CountTiles(rows) + 1, size.thumbWidth,
                                               size.thumbHeight), atEnd, sizingStyle))
    /\ UNCHANGED <<sizingStyle, sel, viewVars, scroll>>

AspectNext == AspectAddThumb

SpecRowAspect == AspectInit /\ [][AspectNext]_vars

----------------------------------------------------------------------------
(* The first pass of _closeRow *)

\* The tiles after the first pass has gone over the first n of them.
RECURSIVE ExpandedUpTo(_, _, _)
ExpandedUpTo(children, n, style) ==
    IF n = 0 THEN children
    ELSE Let(ExpandedUpTo(children, n - 1, style),
             LAMBDA c : [c EXCEPT ![n] = ExpandThumb(c, n, style)])

\* The width the tiles of a row take with the gaps between them, as CSS lengths.
RowStyleWidth(children, style) ==
    SumStyleWidth(children) + Px(style.padding * (Len(children) - 1))

\* The first pass over the tiles of a row: no tile is made smaller, none is made
\* taller than the tallest tile of the moment, and the row still fits the container.
FirstPassExpands(children, style) ==
    /\ \A n \in 1..Len(children) :
        LET before == ExpandedUpTo(children, n - 1, style)
            after == ExpandedUpTo(children, n, style)
        IN  /\ after[n].h >= Px(Offset(before[n].h))
            /\ after[n].w >= Px(Offset(before[n].w))
            /\ after[n].h <= Px(MaxOffsetHeight(before))
    /\ RowStyleWidth(ExpandPass(children, 1, style), style) <= Px(RowOffsetWidth(style))

\* The step closes the row k.
RowClosedInStep(k) ==
    /\ rows[k].open /\ rows[k].children # <<>>
    /\ \E j \in 1..Len(rows') : ~rows'[j].open /\ TileIds(rows'[j]) = TileIds(rows[k])

\* C31: in the first pass of _closeRow each tile is scaled by min(maxH/height,
\* (width+spare)/width): the factor is never below 1, no tile becomes taller than the
\* tallest tile, and after the pass the tiles and the gaps of the row do not exceed
\* the container width.
C31_FirstPassWithinRow ==
    [][\A k \in 1..Len(rows) :
            RowClosedInStep(k) => FirstPassExpands(rows[k].children, sizingStyle)]_vars

\* The same for the rows of a container wider than every tile.
FirstPassWithinWideRow ==
    [][\A k \in 1..Len(rows) :
            /\ RowClosedInStep(k)
            /\ \A i \in 1..Len(rows[k].children) :
                    rows[k].children[i].thumbWidth <= RowOffsetWidth(sizingStyle)
            => FirstPassExpands(rows[k].children, sizingStyle)]_vars

----------------------------------------------------------------------------
(* The rows and the materialized thumbs *)

\* The ids of the tiles of the rows, read in row order.
RowTileIds(rs) == [i \in 1..Len(RowTiles(rs)) |-> RowTiles(rs)[i].id]

\* C32: after any sequence of appends and prepends every materialized thumb is in
\* exactly one row, and the tiles of the rows read in row order are exactly the keys
\* of thumbs in their order.
C32_RowsPartitionThumbs == RowTileIds(rows) = ThumbIds(thumbs)

\* Thumbs were added at the beginning: the first of several rows is the open one and
\* holds more than one tile.
C32_Witness ==
    /\ Len(rows) >= 2
    /\ rows[1].open
    /\ Len(rows[1].children) >= 2
    /\ thumbs # <<>>

----------------------------------------------------------------------------
(* The pages the view asks for *)

\* The step asks the data source for its initial page, neither loaded nor loading.
RequestsInitialPage ==
    /\ IssuesRequest
    /\ NewRequest.page = InitialPage(NewRequest.ds)
    /\ ~IsPageLoadedOrLoading(pages, NewRequest.ds, InitialPage(NewRequest.ds))

\* The thumbs at the moment of the request: no handler touches them after it has
\* asked for a page.
NearbyEdgeAtRequest ==
    /\ thumbs' # <<>>
    /\ thumbs'[1].nearby \/ thumbs'[Len(thumbs')].nearby

ForwardApplies ==
    /\ thumbs' # <<>>
    /\ thumbs'[Len(thumbs')].nearby
    /\ CanLoadPage(NewRequest.ds, thumbs'[Len(thumbs')].searchPage + 1)
    /\ ~IsPageLoadedOrLoading(pages, NewRequest.ds, thumbs'[Len(thumbs')].searchPage + 1)

\* The page requested is the initial page, the page after the last thumb's or the page
\* before the first thumb's, the page after when both are wanted.
RequestsEdgePage ==
    \/ NewRequest.page = InitialPage(NewRequest.ds)
    \/ /\ thumbs' # <<>>
       /\ IF ForwardApplies
          THEN NewRequest.page = thumbs'[Len(thumbs')].searchPage + 1
          ELSE NewRequest.page = thumbs'[1].searchPage - 1

\* A set of page numbers without a gap.
Contiguous(S) == \A p \in S, q \in S : \A r \in p..q : r \in S

LoadedPagesContiguous(pg) == \A ds \in DataSources : Contiguous(pg[ds].loaded)

----------------------------------------------------------------------------
(* A page load that fails *)

\* The data source rejects the oldest outstanding loadPage: the page is no longer
\* loading and is not loaded.
RejectLoadPage(v) ==
    LET req == Head(v.inFlight)
    IN  [v EXCEPT !.inFlight = Tail(@),
                  !.pages[req.ds].loading = @ \ {req.page}]

\* A rejection that leaves the load guard taken.
LoadDataSourcePageRejectedKeepsGuard(v) ==
    IF v.setDataSourceRunner.isRunning
    THEN [v EXCEPT !.threw = TRUE, !.setDataSourceRunner = IdleRunner]
    ELSE [v EXCEPT !.threw = TRUE]

\* _loadDataSourcePageInner when its await throws: the exception leaves it before
\* refreshImages, the no-results update and the sleep; the runner's call is over.  A
\* _setDataSource awaiting the load is left by the same exception.
LoadDataSourcePageRejected(v) ==
    Let([v EXCEPT !.threw = TRUE, !.loadPageRunner.isRunning = FALSE], LAMBDA v1 :
    IF v1.setDataSourceRunner.isRunning
    THEN [v1 EXCEPT !.setDataSourceRunner = IdleRunner]
    ELSE v1)

\* The data source fails to load a page.
LoadPageFails ==
    /\ Running
    /\ inFlight # <<>>
    /\ Commit(LoadDataSourcePageRejected(RejectLoadPage(Begin("loadPageRejected"))))

RejectNext ==
    \/ SetDataSource("A")
    \/ LoadPageDone
    \/ LoadPageFails
    \/ SleeperFires
    \/ NearbyObserver

SpecReject == Init /\ [][RejectNext]_vars

\* The page a loadDataSourcePage of the step asks for, if the guard lets it: the one
\* _dataSourcePageToLoad names for the thumbs the step leaves.
PageWanted == DataSourcePageToLoad([View EXCEPT !.thumbs = thumbs'])

\* C35: if dataSource.loadPage rejects, thumbs and rows are left exactly as they
\* were and the load guard is released, and a later nearby trigger issues a page load
\* again.
C35_RejectedLoadLeavesWindow ==
    [][/\ did'.op = "loadPageRejected" =>
            /\ thumbs' = thumbs
            /\ rows' = rows
            /\ ~loadPageRunner'.isRunning
       /\ (/\ did.op = "loadPageRejected"
           /\ did'.op = "nearby-observer" /\ ~did'.threw
           /\ PageWanted # NoPage) =>
            /\ IssuesRequest
            /\ NewRequest.page = PageWanted]_vars

\* A page load was rejected with thumbs on screen, and the edge thumb is nearby with
\* its page wanted: the next nearby trigger asks for it.
C35_Witness ==
    /\ did.op = "loadPageRejected"
    /\ thumbs # <<>>
    /\ ~loadPageRunner.isRunning
    /\ DataSourcePageToLoad(View) # NoPage
    /\ DataSourcePageToLoad(View) # InitialPage(dataSource)

----------------------------------------------------------------------------
(* Refreshes while _setDataSource is running *)

\* The target of the refresh _setDataSource makes: its target id, or the media id of
\* the scroll position in the history state.
SetDataSourceTarget ==
    IF setDataSourceRunner.targetMediaId # Null THEN setDataSourceRunner.targetMediaId
    ELSE scroll.history.scrollPosition.mediaId

\* The step calls refreshImages from _setDataSource, which it ends.
RefreshOfSetDataSource ==
    /\ did'.op \in {"loadPage", "setDataSource"}
    /\ ~setDataSourceRunner'.isRunning
    /\ did'.refresh.targetArg = SetDataSourceTarget

\* The completion of a page load while _setDataSource is running refreshes only as
\* _setDataSource does, with its target.
LoadCompletionLeavesRefresh ==
    [][(setDataSourceRunner.isRunning /\ did'.op = "loadPage" /\ did'.refresh.called)
            => RefreshOfSetDataSource]_vars

\* C36: while _setDataSource is running the completion of a page load does not call
\* refreshImages (and storeScrollPosition does nothing), so the first refreshImages
\* after the call of setDataSource is the one _setDataSource makes with its target id
\* or the saved scroll id.
C36_FirstRefreshBySetDataSource ==
    [][(setDataSourceRunner.isRunning /\ did'.refresh.called) => RefreshOfSetDataSource]_vars

\* The same for the refreshes that create thumbs.
FirstThumbsBySetDataSource ==
    [][(setDataSourceRunner.isRunning /\ did'.refresh.called /\ did'.refresh.created > 0)
            => RefreshOfSetDataSource]_vars

----------------------------------------------------------------------------
(* The growth loop of getMediaIdsToDisplay *)

\* The number of ids of a range.
TotalThumbs(range) == (range.endIdx - range.startIdx) + 1

\* The loop breaks at the top of the iteration that finds this range.
GrowthBreaks(range, length, desiredPixels, viewPixels) ==
    \/ TotalThumbs(range) >= length
    \/ TotalThumbs(range) * desiredPixels >= viewPixels

\* From this range on the loop breaks within the given number of iterations, every
\* iteration that does not break leaving a range within the list with at least one id
\* more.
RECURSIVE GrowthEnds(_, _, _, _, _)
GrowthEnds(range, length, desiredPixels, viewPixels, iterations) ==
    IF GrowthBreaks(range, length, desiredPixels, viewPixels) THEN TRUE
    ELSE IF iterations = 0 THEN FALSE
    ELSE Let(GrowStep(range, length), LAMBDA next :
            /\ TotalThumbs(next) >= TotalThumbs(range) + 1
            /\ 0 <= next.startIdx /\ next.endIdx <= length - 1
            /\ GrowthEnds(next, length, desiredPixels, viewPixels, iterations - 1))

\* The range the loop of the call starts with.
SelSeed == ClampRange(SeedRange(sel.all, sel.target, sel.thumbs, sel.ios), Len(sel.all))

SelViewPixels == sizingStyle.containerWidth * sel.height * 2

\* C37: the growth loop of getMediaIdsToDisplay terminates for every input: each
\* iteration either breaks or enlarges the range by at least one id, and the loop
\* stops at the latest when the range covers all of allMediaIds.
C37_GrowthLoopTerminates ==
    sel.all # <<>> =>
        /\ GrowthEnds(SelSeed, Len(sel.all), sizingStyle.desiredPixels, SelViewPixels,
                      Len(sel.all) - TotalThumbs(SelSeed))
        /\ (sel.called => sel.out = GrowRange(SelSeed, Len(sel.all),
                                              sizingStyle.desiredPixels, SelViewPixels))

\* A call whose loop ran until the range covered a list of several ids, growing at
\* both ends.
C37_Witness ==
    /\ sel.called
    /\ Len(sel.all) > 2
    /\ sel.out = [startIdx |-> 0, endIdx |-> Len(sel.all) - 1]
    /\ SelSeed.startIdx > 0
    /\ SelSeed.endIdx < Len(sel.all) - 1
    /\ ~GrowthBreaks(SelSeed, Len(sel.all), sizingStyle.desiredPixels, SelViewPixels)

----------------------------------------------------------------------------
(* The cache of isMediaIdExpanded *)

\* C38: in every reachable state the cached isMediaIdExpanded(id) equals the uncached
\* _isMediaIdExpanded(id) for every id: every change of an input invalidates the
\* affected cache entries before the next read.
C38_CacheAgreesWithUncached ==
    \A mediaId \in DOMAIN mediaIdExpandedCache :
        IsMediaIdExpanded(View, mediaId) = IsMediaIdExpandedUncached(View, mediaId)

----------------------------------------------------------------------------
(* Rows without tiles *)

\* C39: after any sequence of tile additions at either edge every row of rows, open
\* or closed, holds at least one tile, also when a single tile is wider than the
\* container.
C39_NoEmptyRow == \A k \in 1..Len(rows) : rows[k].children # <<>>

\* The same while every tile is narrower than the container.
NoEmptyRowOfNarrowTiles ==
    (\A i \in 1..Len(RowTiles(rows)) :
        RowTiles(rows)[i].thumbWidth <= RowOffsetWidth(sizingStyle)) => C39_NoEmptyRow
====
